---------------------------- MODULE Spec2Model ----------------------------
(***************************************************************************)
(* A model of the reactive-value runtime of src/dist/reactive.umd.js: the  *)
(* cells, the process-wide tracker state (r._consumer, r._untrack,         *)
(* r._evalWait), the three evaluation queues r._REQ and the yielding       *)
(* runner.  JavaScript runs every handler to completion, so each public    *)
(* operation is one action; the operations are pure operators over a       *)
(* record s that holds the whole program state.                            *)
(***************************************************************************)
EXTENDS Integers, Sequences, FiniteSets, TLC

VARIABLES
    cells,      \* cell -> its fields (_v, _cmp, _rdy, _eager, _pros, ...)
    evalWait,   \* r._evalWait
    untrack,    \* r._untrack
    consumer,   \* r._consumer: the cell whose definition is running
    REQ,        \* r._REQ: three insertion-ordered queues
    runner,     \* r._runner: a runner timer is armed
    waiting,    \* r._waiting: a pending promise of wait() exists
    rbs,        \* the reactive bundle of the program, if it has one: its
                \* target t (the member cells by key) and its isArray
    tasks,      \* the suspended runner() tasks, each at its await
    scopes,     \* the open batch()/untracked() callbacks of the user task
    inv,        \* cell -> definition invocations made by the last action
    calls,      \* cell -> definition invocations since the last write,
                \* or <<>> in a specification that does not count them
    raised,     \* asynchronous re-raises queued by the last action
    written,    \* the cells written in the open or the last batch, until
                \* the next write outside a batch
    last        \* the last action, and the outcome when it was a read

vars == <<cells, evalWait, untrack, consumer, REQ, runner, waiting, rbs,
          tasks, scopes, inv, calls, raised, written, last>>

(***************************************************************************)
(* Bounds of the model.                                                    *)
(***************************************************************************)
MaxVal == 1
MaxCmpVal == 2
MaxDepth == 1
MaxCalls == 2
MaxCount == 2

\* The cells of the program that runs: the objects reactive() returned.
Cell == DOMAIN cells
NoCell == 0
NoTier == -1
Undefined == -1
NaN == -2
NoErr == "none"
SelfRef == "ReferenceError"
TypeErr == "TypeError"

(***************************************************************************)
(* Values: numbers, undefined and NaN, with JavaScript's + and !==.        *)
(***************************************************************************)
JSAdd(x, y) == IF x < 0 \/ y < 0 THEN NaN ELSE x + y

RECURSIVE JSSum(_)
JSSum(vs) == IF Len(vs) = 1 THEN vs[1] ELSE JSAdd(vs[1], JSSum(Tail(vs)))

StrictNeq(a, b) == a # b \/ a = NaN

defcmp(a, b) == StrictNeq(a, b)

Parity(a) == IF a < 0 THEN a ELSE a % 2

\* A custom comparison function that treats values of equal parity as equal.
parcmp(a, b) == StrictNeq(Parity(a), Parity(b))

\* chg of _setNotify: the comparator called, or the constant itself.
Changed(cmp, old, new) ==
    CASE cmp = "defcmp" -> defcmp(old, new)
      [] cmp = "parcmp" -> parcmp(old, new)
      [] cmp = "true" -> TRUE
      [] cmp = "false" -> FALSE

(***************************************************************************)
(* Insertion-ordered sets (the JavaScript Set of _pros, _cons, _REQ[i]).   *)
(***************************************************************************)
Elems(q) == {q[i] : i \in 1..Len(q)}
SetAdd(q, x) == IF x \in Elems(q) THEN q ELSE Append(q, x)
SetDelete(q, x) == SelectSeq(q, LAMBDA y : y # x)

\* JavaScript passes values: an argument is evaluated once, before the call.
\* Only({F(x) : x \in {e}}) is F(e) with e evaluated once.
Only(S) == CHOOSE v \in S : TRUE

(***************************************************************************)
(* Definitions are data: the cells read with tracking, the cells read      *)
(* inside untracked(), a constant addend and the error thrown, if any.     *)
(***************************************************************************)
NoDef == [kind |-> "none", reads |-> <<>>, ureads |-> <<>>, add |-> 0, throws |-> NoErr]
Fn(reads, add) == [kind |-> "fn", reads |-> reads, ureads |-> <<>>, add |-> add, throws |-> NoErr]
FnU(reads, ureads, add) == [kind |-> "fn", reads |-> reads, ureads |-> ureads, add |-> add, throws |-> NoErr]
Throwing(reads, e) == [kind |-> "fn", reads |-> reads, ureads |-> <<>>, add |-> 0, throws |-> e]
\* () => { if (a.rv !== 0) throw e; return v; }
ThrowIf(reads, e, v) ==
    [kind |-> "throwif", reads |-> reads, ureads |-> <<>>, add |-> v, throws |-> e]
\* () => { try { return p.rv; } catch (e) { return fallback; } }
Catching(reads, fallback) ==
    [kind |-> "catch", reads |-> reads, ureads |-> <<>>, add |-> fallback, throws |-> NoErr]
\* () => (p.__, p._bundle().reduce((x, y) => x + y, 0)) for the bundle p:
\* reads the aggregate cell and the members p has when it runs.
Snapshot == [kind |-> "snapshot", reads |-> <<1>>, ureads |-> <<>>, add |-> 0, throws |-> NoErr]

\* The value a definition returns from the values it read.
DefValue(d, vs) ==
    IF d.kind = "snapshot" THEN JSSum(<<0>> \o Tail(vs))
    ELSE IF d.kind = "catch" THEN JSSum(vs)
    ELSE IF d.kind = "throwif" THEN d.add
    ELSE IF vs = <<>> THEN d.add
    ELSE IF Len(vs) = 1 /\ d.add = 0 THEN vs[1]
    ELSE JSAdd(JSSum(vs), d.add)

(***************************************************************************)
(* consumer(c, add) and provider(p, add) of the cell prototype.            *)
(***************************************************************************)
consumerM(s, p, c, add) ==
    [s EXCEPT !.cells[p].cons = IF add THEN SetAdd(@, c) ELSE SetDelete(@, c)]

providerM(s, c, p, add) ==
    [s EXCEPT !.cells[c].pros = IF add THEN SetAdd(@, p) ELSE SetDelete(@, p)]

\* Faulty variant: clears the providers without unsubscribing from them.
providerClear(s, c) == [s EXCEPT !.cells[c].pros = <<>>]

\* provider(null): unsubscribe from, and clear, all current providers.
providerNull(s, c) ==
    [s EXCEPT !.cells = [k \in DOMAIN s.cells |->
        IF k = c
        THEN [s.cells[k] EXCEPT
                 !.pros = <<>>,
                 !.cons = IF c \in Elems(s.cells[c].pros) THEN SetDelete(@, c) ELSE @]
        ELSE IF k \in Elems(s.cells[c].pros)
             THEN [s.cells[k] EXCEPT !.cons = SetDelete(@, c)]
             ELSE s.cells[k]]]

(***************************************************************************)
(* The scheduler's synchronous part.                                       *)
(***************************************************************************)
QueuesEmpty(s) == s.REQ[1] = <<>> /\ s.REQ[2] = <<>> /\ s.REQ[3] = <<>>

\* Faulty variant: the timer is armed whatever the evaluation-wait depth is.
runUnguarded(s0) ==
    IF ~QueuesEmpty(s0) THEN [s0 EXCEPT !.runner = TRUE] ELSE s0

\* run(): arm the runner timer.
run(s0) ==
    Only({ IF s.evalWait = 0 /\ ~s.runner /\ ~QueuesEmpty(s)
           THEN [s EXCEPT !.runner = TRUE]
           ELSE s : s \in {s0} })

Min(a, b) == IF a < b THEN a ELSE b

\* r._REQ[ro._sched].delete(ro)
unqueue(s, ro) ==
    IF s.cells[ro].sched # NoTier
    THEN [s EXCEPT !.REQ[s.cells[ro].sched + 1] = SetDelete(@, ro)]
    ELSE s

\* r._REQ[ro._sched = dis].add(ro)
enqueue(s, ro, d) ==
    [s EXCEPT !.REQ[d + 1] = SetAdd(@, ro), !.cells[ro].sched = d]

\* Faulty variant: the tier is chosen by the consumers of the cell, tier 1
\* for a cell that has some and tier 2 for one that has none.
queueEvalByConsumers(s, ro, dis) ==
    IF s.cells[ro].sched # NoTier THEN s
    ELSE enqueue(s, ro, IF dis = 0 THEN 0
                        ELSE IF s.cells[ro].cons # <<>> THEN 1 ELSE 2)

\* _queueEval(ro, dis)
queueEval(s, ro, dis) ==
    IF s.cells[ro].sched # NoTier /\ s.cells[ro].sched <= Min(dis, 2) THEN s
    ELSE enqueue(unqueue(s, ro), ro, Min(dis, 2))

\* Faulty variant: enqueues only cells that have consumers.
wantedConsumed(s, c) ==
    /\ s.cells[c].rdy # "ready"
    /\ s.cells[c].sched = NoTier
    /\ s.cells[c].cons # <<>>

\* Faulty variant: enqueues lazy cells that nothing consumes.
wantedAny(s, c) == s.cells[c].rdy # "ready" /\ s.cells[c].sched = NoTier

\* The test of _schedule: not ready, not scheduled, eager or consumed.
wanted(s, c) ==
    /\ s.cells[c].rdy # "ready"
    /\ s.cells[c].sched = NoTier
    /\ (s.cells[c].eager \/ s.cells[c].cons # <<>>)

\* _schedule(dis)
schedule(s0, c, dis) ==
    Only({ run(IF wanted(s, c) THEN queueEval(s, c, dis) ELSE s) : s \in {s0} })

(***************************************************************************)
(* ripple(dis): ripple ready-state changes through the consumers.          *)
(***************************************************************************)
RECURSIVE ripple(_, _, _), rippleCons(_, _, _, _)

\* Faulty variant: a two-valued readiness, stale at every distance.
rippledStale(rdy, dis) == IF dis >= 1 THEN "stale" ELSE rdy

\* Faulty variant: a distant ripple makes a stale cell maybe-stale.
rippledMaybe(rdy, dis) ==
    IF dis = 1 THEN "stale" ELSE IF dis > 1 THEN "maybe" ELSE rdy

\* Lines 169-170: the readiness after a ripple of distance dis.
rippled(rdy, dis) ==
    IF dis = 1 THEN "stale"
    ELSE IF dis > 1 /\ rdy = "ready" THEN "maybe"
    ELSE rdy

waitUp(s) == [s EXCEPT !.evalWait = @ + 1]
waitDown(s) == [s EXCEPT !.evalWait = @ - 1]

\* Faulty variant: only the cell whose value changed ripples on.
rippleDirect(s0, wasReady, c, dis) ==
    Only({ IF dis = 0
           THEN waitDown(rippleCons(waitUp(s), s.cells[c].cons, 1, dis + 1))
           ELSE s : s \in {s0} })

\* Lines 172-177: ripple on if local or transitioning from ready.
rippleOn(s0, wasReady, c, dis) ==
    Only({ IF dis = 0 \/ (wasReady = "ready" /\ s.cells[c].rdy # "ready")
           THEN waitDown(rippleCons(waitUp(s), s.cells[c].cons, 1, dis + 1))
           ELSE s : s \in {s0} })

ripple(s0, c, dis) ==
    Only({ schedule(rippleOn([s EXCEPT !.cells[c].rdy = rippled(@, dis)],
                             s.cells[c].rdy, c, dis), c, dis) : s \in {s0} })

rippleCons(s, cons, i, nxt) ==
    IF i > Len(cons) THEN s
    ELSE rippleCons(ripple(s, cons[i], nxt), cons, i + 1, nxt)

\* Faulty variant: stores the value and leaves the readiness as it was.
storedUnready(s, c, v) ==
    [s EXCEPT !.cells[c].v = v, !.cells[c].error = NoErr]

\* Lines 233-235: store the value.
stored(s, c, v) ==
    [s EXCEPT !.cells[c].v = v,
              !.cells[c].rdy = "ready",
              !.cells[c].error = NoErr]

\* Faulty variant: ripples whatever the comparator says.
setNotifyAlways(s0, c, v) == ripple(stored(s0, c, v), c, 0)

\* _setNotify(v)
setNotify(s0, c, v) ==
    Only({ IF Changed(s.cells[c].cmp, s.cells[c].v, v)
           THEN ripple(stored(s, c, v), c, 0)
           ELSE stored(s, c, v) : s \in {s0} })

(***************************************************************************)
(* batch(cb) and untracked(cb), around the callback.                       *)
(***************************************************************************)
batchEnter(s) == [s EXCEPT !.evalWait = @ + 1]
batchReturn(s) == run([s EXCEPT !.evalWait = @ - 1])
\* cb() threw: the statements after it are not executed.
batchThrow(s) == s

untrackedEnter(s) == [s EXCEPT !.untrack = @ + 1]
untrackedReturn(s) == [s EXCEPT !.untrack = @ - 1]
untrackedThrow(s) == s

(***************************************************************************)
(* The read operation: get rv, _checkReady and the call of the definition. *)
(* Each returns the new state, the exception thrown (NoErr when it returns *)
(* normally) and the value returned.                                       *)
(***************************************************************************)
Return(s, v) == [s |-> s, thrown |-> NoErr, val |-> v]
Throw(s, e) == [s |-> s, thrown |-> e, val |-> Undefined]

RECURSIVE rv(_, _), checkReady(_, _, _), readAll(_, _, _, _)

\* The reads a definition makes, in order; an exception ends them.
readNext(r0, ps, i, vs) ==
    Only({ IF r.thrown # NoErr THEN r
           ELSE readAll(r.s, ps, i + 1, Append(vs, r.val)) : r \in {r0} })

readAll(s, ps, i, vs) ==
    IF i > Len(ps) THEN Return(s, vs)
    ELSE readNext(rv(s, ps[i]), ps, i, vs)

\* untracked(() => reads): the decrement is skipped when a read throws.
untrackedEnd(u0) ==
    Only({ IF u.thrown # NoErr THEN Throw(untrackedThrow(u.s), u.thrown)
           ELSE Return(untrackedReturn(u.s), u.val) : u \in {u0} })

untrackedReads(r0, d) ==
    Only({ IF r.thrown # NoErr \/ d.ureads = <<>> THEN r
           ELSE untrackedEnd(readAll(untrackedEnter(r.s), d.ureads, 1, r.val)) :
           r \in {r0} })

\* The end of a definition: its own throw, or the value of what it read.
defResult(r0, d) ==
    Only({ IF r.thrown # NoErr
           THEN IF d.kind = "catch" THEN Return(r.s, d.add) ELSE r
           ELSE IF d.throws # NoErr /\ (d.kind # "throwif" \/ JSSum(r.val) # 0)
           THEN Throw(r.s, d.throws)
           ELSE Return(r.s, DefValue(d, r.val)) : r \in {r0} })

\* The member cells of a bundle target, in key order.
Members(t) == SelectSeq(t, LAMBDA m : m # 0)

\* The cells a definition reads with tracking.
defReads(s, c) ==
    IF s.cells[c].def.kind = "snapshot"
    THEN s.cells[c].def.reads \o Members(s.rbs.t)
    ELSE s.cells[c].def.reads

\* this._def(this._v): the tracked reads, then the untracked ones.
callDef(s0, c) ==
    Only({ defResult(untrackedReads(readAll([s EXCEPT !.inv[c] = @ + 1],
                                            defReads(s, c), 1, <<>>),
                                    s.cells[c].def),
                     s.cells[c].def) : s \in {s0} })

\* Faulty variant: goes on to the next provider without looking at what
\* the provider's recomputation made of the cell.
checkNextBlind(r0, c, i) ==
    Only({ IF r.thrown # NoErr THEN r
           ELSE checkReady(r.s, c, i + 1) : r \in {r0} })

\* _checkReady(), from the i-th provider on; val is the boolean readiness.
checkNext(r0, c, i) ==
    Only({ IF r.thrown # NoErr THEN r
           ELSE IF r.s.cells[c].rdy = "stale" THEN Return(r.s, FALSE)
           ELSE checkReady(r.s, c, i + 1) : r \in {r0} })

checkReady(s0, c, i) ==
    Only({ IF i = 1 /\ s.cells[c].rdy # "maybe"
           THEN Return(s, s.cells[c].rdy = "ready")
           ELSE IF i > Len(s.cells[c].pros)
                THEN Return([s EXCEPT !.cells[c].rdy = "ready"], TRUE)
                ELSE checkNext(rv(s, s.cells[c].pros[i]), c, i) : s \in {s0} })

\* The end of get rv: throw the cached error or return the value.
rvResult(s0, c) ==
    Only({ IF s.cells[c].error # NoErr THEN Throw(s, s.cells[c].error)
           ELSE Return(s, s.cells[c].v) : s \in {s0} })

\* Lines 112-117: we are the consumer now.
evalBegin(s, c) ==
    [s EXCEPT !.consumer = c, !.cells[c].busy = TRUE, !.cells[c].error = NoErr]

\* Faulty variant: the evaluating flag stays set.
evalEndBusy(s, c, pc) == [s EXCEPT !.consumer = pc]

\* delete this._busy; r._consumer = pc
evalEnd(s, c, pc) == [s EXCEPT !.cells[c].busy = FALSE, !.consumer = pc]

\* Faulty variant: re-raises for every eager cell, consumed or not.
reraiseEager(s0, c) ==
    IF s0.cells[c].eager THEN [s0 EXCEPT !.raised = @ + 1] ELSE s0

\* Lines 128-131: in space, no one can hear you scream.
reraise(s0, c) ==
    Only({ IF s.cells[c].eager /\ s.cells[c].cons = <<>>
           THEN [s EXCEPT !.raised = @ + 1]
           ELSE s : s \in {s0} })

\* Lines 122-133: the catch block.
evalFailed(s, c, e) ==
    Throw(reraise(ripple([s EXCEPT !.cells[c].error = e,
                                   !.cells[c].rdy = "ready"], c, 0), c), e)

\* Lines 116-133: the outcome of the definition.
evaluated(r0, c, pc) ==
    Only({ IF r.thrown = NoErr
           THEN rvResult(setNotify(evalEnd(r.s, c, pc), c, r.val), c)
           ELSE evalFailed(evalEnd(r.s, c, pc), c, r.thrown) : r \in {r0} })

\* The recomputation of get rv (lines 107-133).
recompute(s0, c) ==
    Only({ IF s.cells[c].busy THEN Throw(s, SelfRef)
           ELSE evaluated(callDef(evalBegin(providerNull(s, c), c), c), c, s.consumer) :
           s \in {s0} })

\* Faulty variant: leaves the queue without clearing the scheduled tier.
dequeueKeep(s0, c) ==
    Only({ IF s.cells[c].sched # NoTier
           THEN [s EXCEPT !.REQ[s.cells[c].sched + 1] = SetDelete(@, c)]
           ELSE s : s \in {s0} })

\* Remove from the scheduled evaluation queue (lines 96-100).
dequeue(s0, c) ==
    Only({ IF s.cells[c].sched # NoTier
           THEN [s EXCEPT !.REQ[s.cells[c].sched + 1] = SetDelete(@, c),
                          !.cells[c].sched = NoTier]
           ELSE s : s \in {s0} })

\* Faulty variant: tracks inside untracked() too.
trackAlways(s0, c) ==
    Only({ IF s.consumer # NoCell
           THEN providerM(consumerM(s, c, s.consumer, TRUE), s.consumer, c, TRUE)
           ELSE s : s \in {s0} })

\* Producer-consumer tracking (lines 101-105).
track(s0, c) ==
    Only({ IF s.consumer # NoCell /\ s.untrack = 0
           THEN providerM(consumerM(s, c, s.consumer, TRUE), s.consumer, c, TRUE)
           ELSE s : s \in {s0} })

\* Lines 106-136: recompute unless ready.
rvChecked(r0, c) ==
    Only({ IF r.thrown # NoErr THEN r
           ELSE IF r.val THEN rvResult(r.s, c)
           ELSE recompute(r.s, c) : r \in {r0} })

\* get rv
rv(s, c) == rvChecked(checkReady(track(dequeue(s, c), c), c, 1), c)

(***************************************************************************)
(* Construction and the writing operations of a cell.                      *)
(***************************************************************************)
RECURSIVE defSet(_, _, _)

\* set def (d): clear, set/change, or clone another cell through its getter.
defSet(s, c, d) ==
    IF d.kind = "none"
    THEN IF s.cells[c].def.kind # "none"
         THEN setNotify([providerNull(s, c) EXCEPT !.cells[c].def = NoDef], c, Undefined)
         ELSE s
    ELSE IF d.kind \in {"fn", "snapshot", "catch", "throwif"}
    THEN schedule([providerNull(s, c) EXCEPT !.cells[c].def = d,
                                             !.cells[c].error = NoErr,
                                             !.cells[c].rdy = "stale"], c, 0)
    ELSE defSet(s, c, [d EXCEPT !.kind = "fn"])

\* Lines 18-34: the new object.
created(s, c, opts) ==
    [s EXCEPT !.cells[c] =
        [v |-> opts.v, cmp |-> opts.compare, rdy |-> "ready",
         eager |-> opts.eager, pros |-> <<>>, cons |-> <<>>,
         busy |-> FALSE, def |-> NoDef, error |-> NoErr, sched |-> NoTier,
         g |-> 0, st |-> 0, rov |-> 0, rovg |-> 0]]

\* reactive(opts)
reactive(s, c, opts) ==
    IF opts.def.kind # "none"
    THEN defSet(created(s, c, opts), c, opts.def)
    ELSE created(s, c, opts)

\* Faulty variant: stores the value and keeps the definition.
wvKeepDef(s, c, v) == setNotify(s, c, v)

\* set wv (v)
wvSet(s, c, v) ==
    setNotify(IF s.cells[c].def.kind # "none" THEN defSet(s, c, NoDef) ELSE s, c, v)

\* The mapping function old => (old + 1) % 2 of a setter call.
Mapping(old) == IF old < 0 THEN NaN ELSE (old + 1) % 2

\* Lines 227-228: the value or the mapped value is stored.
setStore(s, c, vvf) ==
    setNotify(s, c, IF vvf.fn THEN Mapping(s.cells[c].v) ELSE vvf.v)

\* set(vvf) and the setter closure, through _set(vvf)
set(s, c, vvf) ==
    setStore(IF s.cells[c].def.kind # "none" THEN defSet(s, c, NoDef) ELSE s, c, vvf)

\* set eager (e)
eagerSet(s, c, e) == schedule([s EXCEPT !.cells[c].eager = e], c, 0)

\* unready()
unready(s, c) ==
    schedule(IF s.cells[c].def.kind # "none"
             THEN [s EXCEPT !.cells[c].rdy = "stale"]
             ELSE s, c, 0)

(***************************************************************************)
(* The cached objects of a cell.  Field g is the getter closure (_g), st   *)
(* the setter closure (_s) and rov the read-only view (_rov): 0 while the  *)
(* object does not exist, else the number of the object created, so that   *)
(* two results name the same object exactly when they are equal.  Field    *)
(* rovg is the getter the frozen view was created with.                    *)
(***************************************************************************)
\* Faulty variant: a new object at every access.
recreated(s, c, f) == [s EXCEPT !.cells[c][f] = @ + 1]

\* this._g ||= ..., this._s ||= ..., if (!this._rov) this._rov = ...
cached(s, c, f) == IF s.cells[c][f] = 0 THEN [s EXCEPT !.cells[c][f] = 1] ELSE s

\* get readonlyView: the frozen view is made once, around the getter.
readonlyView(s, c) ==
    IF s.cells[c].rov # 0 THEN s
    ELSE [cached(cached(s, c, "g"), c, "rov") EXCEPT
             !.cells[c].rovg = cached(s, c, "g").cells[c].g]

AccessKinds == {"getter", "setter", "accessors", "readonlyView", "view.getter"}

\* get getter, get setter, get accessors, get readonlyView, and the getter
\* property of the view; the value is the object returned.
access(s0, c, k) ==
    Only({ CASE k = "getter" -> Return(cached(s, c, "g"), cached(s, c, "g").cells[c].g)
             [] k = "setter" -> Return(cached(s, c, "st"), cached(s, c, "st").cells[c].st)
             [] k = "accessors" ->
                    Return(cached(cached(s, c, "g"), c, "st"),
                           <<cached(s, c, "g").cells[c].g, cached(s, c, "st").cells[c].st>>)
             [] k = "readonlyView" ->
                    Return(readonlyView(s, c), readonlyView(s, c).cells[c].rov)
             [] k = "view.getter" ->
                    Return(readonlyView(s, c), readonlyView(s, c).cells[c].rovg) :
           s \in {s0} })

\* c.readonlyView.rv: get rv of the view prototype calls the getter, which
\* reads the source.
viewRv(s, c) == rv(readonlyView(s, c), c)

\* c.readonlyView.error: in the accessor of the view this is the view, an
\* object with the properties error and getter over the view prototype;
\* none of them has _error, so the result is undefined.
viewError(s, c) == Return(readonlyView(s, c), NoErr)

\* c.readonlyView.wv = v: the view is frozen and has no such property, its
\* prototype neither; the assignment adds nothing, and throws a TypeError
\* when the assigning code is strict.
viewAssign(s, c, v, strict) ==
    IF strict THEN Throw(readonlyView(s, c), TypeErr)
    ELSE Return(readonlyView(s, c), v)

(***************************************************************************)
(* wait(): the promise returned is already resolved, or the pending one    *)
(* that the runner resolves.                                               *)
(***************************************************************************)
Pending == 0
Resolved == 1

wait(s) ==
    IF s.waiting THEN Return(s, Pending)
    ELSE IF s.evalWait = 0 /\ QueuesEmpty(s) THEN Return(s, Resolved)
    ELSE Return([s EXCEPT !.waiting = TRUE], Pending)

(***************************************************************************)
(* runner(): the code between two awaits is one step.  A step returns the  *)
(* state and the await the task is suspended at ("q0": inside the loop     *)
(* over tier 0, "loop": at the end of the while body) or "done", and the   *)
(* cell the step took from which tier, if any.                             *)
(***************************************************************************)
Step(s, pc) == [s |-> s, pc |-> pc, ro |-> NoCell, tier |-> NoTier]

\* try { ro.rv } catch (_err) {}
runRv(s, ro) == rv(s, ro).s

\* The first cell of tier d is read; the task yields at pc.
take(s, d, pc) ==
    [s |-> runRv(s, Head(s.REQ[d + 1])), pc |-> pc,
     ro |-> Head(s.REQ[d + 1]), tier |-> d]

\* Lines 269-276: drop the guard; signal the waiters if the queues are empty.
runnerEnd(s) ==
    Step([s EXCEPT !.evalWait = @ - 1,
                   !.waiting = IF QueuesEmpty(s) THEN FALSE ELSE @], "done")

\* Lines 264-268, after the loop over tier 0.
afterQ0(s0) ==
    Only({ IF s.evalWait > 1 THEN runnerEnd(s)
           ELSE IF s.REQ[2] # <<>> THEN take(s, 1, "loop")
           ELSE IF s.REQ[3] # <<>> THEN take(s, 2, "loop")
           ELSE runnerEnd(s) : s \in {s0} })

\* Faulty variant: tier 0 is not drained first.
forQ0Skip(s0) == afterQ0(s0)

\* Lines 260-263: the next cell of tier 0, up to await cede().
forQ0(s0) ==
    Only({ IF s.REQ[1] = <<>> THEN afterQ0(s)
           ELSE IF s.evalWait < 2 THEN take(s, 0, "q0")
           ELSE afterQ0(s) : s \in {s0} })

\* Line 259: the head of the while loop.
whileTop(s0) ==
    Only({ IF s.evalWait < 2 THEN forQ0(s) ELSE runnerEnd(s) : s \in {s0} })

\* Lines 242-245: the timer fires and runner() starts.
runnerStart(s) ==
    IF s.evalWait = 0
    THEN whileTop([s EXCEPT !.runner = FALSE, !.evalWait = @ + 1])
    ELSE Step([s EXCEPT !.runner = FALSE], "done")

\* A suspended runner continues after its await.
runnerResume(s, pc) == IF pc = "q0" THEN forQ0(s) ELSE whileTop(s)

(***************************************************************************)
(* The programs the model is run on: the options each cell is constructed  *)
(* with.  Cell 1 is a source; cells 2 and 3 read lower-numbered cells.     *)
(***************************************************************************)
Val == 0..MaxVal

Opts(v, def, eager, compare) ==
    [v |-> v, def |-> def, eager |-> eager, compare |-> compare]

Source == Opts(0, NoDef, FALSE, "defcmp")
Derived(def, eager) == Opts(Undefined, def, eager, "defcmp")

\* Pure definitions with the default comparator over an acyclic graph.
PureLayouts ==
    { <<Source, o2, o3>> :
        o2 \in {Source} \cup {Derived(Fn(<<1>>, 1), e) : e \in BOOLEAN},
        o3 \in {Derived(d, e) : d \in {Fn(<<1>>, 1), Fn(<<2>>, 1), Fn(<<1, 2>>, 0)},
                                e \in BOOLEAN} }

\* The chain 1 -> 2 -> 3 with a custom or constant comparator on cell 1 or 2.
CmpLayouts ==
    { <<[Source EXCEPT !.compare = c1],
        [Derived(Fn(<<1>>, 1), FALSE) EXCEPT !.compare = c2],
        Derived(Fn(<<2>>, 1), e)>> :
        c1 \in {"defcmp", "parcmp", "true", "false"},
        c2 \in {"defcmp", "parcmp"},
        e \in BOOLEAN }

\* Cell 3 reads cell 1 with tracking and cell 2 inside untracked().
UntrackedLayouts ==
    { <<Source, o2, Derived(FnU(<<1>>, <<2>>, 0), e)>> :
        o2 \in {Source, Derived(Fn(<<1>>, 1), FALSE)},
        e \in BOOLEAN }

Blank == [v |-> Undefined, cmp |-> "defcmp", rdy |-> "ready", eager |-> FALSE,
          pros |-> <<>>, cons |-> <<>>, busy |-> FALSE, def |-> NoDef,
          error |-> NoErr, sched |-> NoTier, g |-> 0, st |-> 0, rov |-> 0, rovg |-> 0]

NoInv == [c \in Cell |-> 0]

\* A program without bundle.  n counts the member cells ever created.
NoBundle == [t |-> <<>>, isArray |-> FALSE, n |-> 0]

Boot(n) == [cells |-> [c \in 1..n |-> Blank], evalWait |-> 0, untrack |-> 0,
            consumer |-> NoCell, REQ |-> <<<<>>, <<>>, <<>>>>, runner |-> FALSE,
            waiting |-> FALSE, rbs |-> NoBundle,
            inv |-> [c \in 1..n |-> 0], raised |-> 0]

RECURSIVE Construct(_, _, _)
Construct(s, L, c) ==
    IF c > Len(L) THEN s ELSE Construct(reactive(s, c, L[c]), L, c + 1)

(***************************************************************************)
(* The reactive bundle (src/reactive_bundle.js, lines 18-214), on the      *)
(* operations of the cells above.  Cell 1 is rbs.r, the aggregate cell     *)
(* p.__ ; cell 2 is rbs.length of an array bundle; cell 3 is a cell of the *)
(* user that subscribes; the member cells are 4, 5, ... in the order of    *)
(* their creation.  t[k] is the member cell of key k, or 0 when t has no   *)
(* such property: the keys of an object bundle are 1..MaxKeys, those of an *)
(* array bundle its indexes, counted from 1.  Values are numbers.  The     *)
(* reads the traps make of rbs.r outside a definition (lines 90, 132) and  *)
(* the read of rbs.length by the array methods change nothing.             *)
(***************************************************************************)
MaxKeys == 2
MaxMembers == 4
Aggregate == 1
Length == 2
Subscriber == 3
\* The proxy object, the value of the aggregate cell (line 31).
Proxy == 9

\* reactive() without options
Plain == Opts(Undefined, NoDef, FALSE, "defcmp")

\* Object.hasOwn(t, k)
hasOwn(t, k) == k <= Len(t) /\ t[k] # 0

\* Lines 162-167: the member cell of key k, created when t has none.
member(s, k) ==
    IF hasOwn(s.rbs.t, k) THEN s
    ELSE [reactive(s, Subscriber + s.rbs.n + 1, Plain) EXCEPT
             !.rbs.n = @ + 1,
             !.rbs.t = IF k <= Len(@)
                       THEN [@ EXCEPT ![k] = Subscriber + s.rbs.n + 1]
                       ELSE Append(@, Subscriber + s.rbs.n + 1)]

\* rbs.length.wv = t.length (lines 45, 149, 178)
lengthSync(s) ==
    IF s.rbs.isArray THEN wvSet(s, Length, Len(s.rbs.t)) ELSE s

\* Faulty variant: a new member does not ripple the aggregate cell.
hsetInQuiet(s0, s, k, v) ==
    batchReturn(IF hasOwn(s0.rbs.t, k)
                THEN wvSet(batchEnter(s), s.rbs.t[k], v)
                ELSE lengthSync(wvSet(batchEnter(s), s.rbs.t[k], v)))

\* Lines 168-181, the value a number: mr.wv = v, and for a new member the
\* length and the ripple of the aggregate cell.
hsetIn(s0, s, k, v) ==
    batchReturn(IF hasOwn(s0.rbs.t, k)
                THEN wvSet(batchEnter(s), s.rbs.t[k], v)
                ELSE ripple(lengthSync(wvSet(batchEnter(s), s.rbs.t[k], v)),
                            Aggregate, 0))

\* _handler.set (t, k, v), lines 153-183
hset(s0, k, v) == Only({ hsetIn(s0, s, k, v) : s \in {member(s0, k)} })

\* Lines 169-171, the internal copy: the value is the member cell m of the
\* same bundle.  v.def() is the definition of m (the def method of
\* src/reactive.js, lines 190-194, the core the Makefile joins the bundle
\* with); a member holding a number has none, and mr.wv = v.rv.
copy(s, k, m) == Only({ hset(r.s, k, r.val) : r \in {rv(s, m)} })

\* _handler.set (t, 'length', n), lines 146-151
setLength(s, n) ==
    wvSet([s EXCEPT !.rbs.t = IF n <= Len(@) THEN SubSeq(@, 1, n)
                              ELSE @ \o [i \in 1..(n - Len(@)) |-> 0]],
          Length, n)

\* _handler.deleteProperty (t, k), lines 79-87
hdelete(s, k) ==
    IF hasOwn(s.rbs.t, k)
    THEN ripple([s EXCEPT !.rbs.t[k] = 0], Aggregate, 0)
    ELSE s

\* Array.prototype.push, pop and splice(k, 1) on the proxy: their Get,
\* Set and Delete go through the traps.  ToLength(p.length) is the value
\* of rbs.length (valueOf of the cell).
RECURSIVE moveDown(_, _, _)
moveDown(s, j, len) ==
    IF j >= len THEN s
    ELSE moveDown(IF hasOwn(s.rbs.t, j + 1)
                  THEN copy(s, j, s.rbs.t[j + 1])
                  ELSE hdelete(s, j), j + 1, len)

arrayCall(s, fnn, a, len) ==
    CASE fnn = "push" -> setLength(hset(s, len + 1, a), len + 1)
      [] fnn = "pop" -> IF len = 0 THEN setLength(s, 0)
                        ELSE setLength(hdelete(s, len), len - 1)
      [] fnn = "splice" ->
            IF a > len THEN setLength(s, len)
            ELSE setLength(hdelete(moveDown(s, a, len), len), len - 1)

\* Lines 43-47
aBatchFn(s, fnn, a) ==
    batchReturn(lengthSync(arrayCall(batchEnter(s), fnn, a, s.cells[Length].v)))

\* The values of the members, in key order: p._bundle()
Values(s) == [i \in 1..Len(Members(s.rbs.t)) |-> s.cells[Members(s.rbs.t)[i]].v]

RECURSIVE spliceAbsent(_, _, _), pushMissing(_, _, _, _)
RECURSIVE deleteAbsent(_, _, _), assignAll(_, _, _)

\* Line 198: splice the values not in src, from the last key down.
spliceAbsent(s, src, k) ==
    IF k = 0 THEN s
    ELSE spliceAbsent(IF hasOwn(s.rbs.t, k) /\ s.cells[s.rbs.t[k]].v \notin Elems(src)
                      THEN aBatchFn(s, "splice", k)
                      ELSE s, src, k - 1)

\* Faulty variant: does not note the value it pushed.
pushMissingAgain(s, src, i, has) ==
    IF i > Len(src) THEN s
    ELSE IF src[i] \in has THEN pushMissing(s, src, i + 1, has)
    ELSE pushMissing(aBatchFn(s, "push", src[i]), src, i + 1, has)

\* Lines 200-204: push the values of src the bundle does not have.
pushMissing(s, src, i, has) ==
    IF i > Len(src) THEN s
    ELSE IF src[i] \in has THEN pushMissing(s, src, i + 1, has)
    ELSE pushMissing(aBatchFn(s, "push", src[i]), src, i + 1, has \cup {src[i]})

pushAll(s0, src) == Only({ pushMissing(s, src, 1, Elems(Values(s))) : s \in {s0} })

\* Line 207: delete the keys src does not have (Undefined in src).
deleteAbsent(s, src, k) ==
    IF k > Len(s.rbs.t) THEN s
    ELSE deleteAbsent(IF src[k] = Undefined THEN hdelete(s, k) ELSE s, src, k + 1)

\* Object.assign(bundle, src), line 209, and the loop of line 30.
assignAll(s, src, k) ==
    IF k > Len(src) THEN s
    ELSE assignAll(IF src[k] # Undefined THEN hset(s, k, src[k]) ELSE s, src, k + 1)

\* reactiveBundle.update(bundle, src), lines 193-213
update(s, src) ==
    batchReturn(IF s.rbs.isArray
                THEN pushAll(spliceAbsent(batchEnter(s), src, Len(s.rbs.t)), src)
                ELSE assignAll(deleteAbsent(batchEnter(s), src, 1), src, 1))

\* reactiveBundle(iv), lines 18-34
bundleOf(s, iv) ==
    wvSet(assignAll(IF s.rbs.isArray
                    THEN reactive(reactive(s, Aggregate, Plain), Length,
                                  [Plain EXCEPT !.v = Len(iv)])
                    ELSE reactive(s, Aggregate, Plain), iv, 1),
          Aggregate, Proxy)

reactiveBundle(s, iv, isArray) ==
    bundleOf([s EXCEPT !.rbs = [t |-> IF isArray THEN <<>>
                                      ELSE [k \in 1..MaxKeys |-> 0],
                                isArray |-> isArray, n |-> 0]], iv)

(***************************************************************************)
(* The state machine.                                                      *)
(***************************************************************************)
State == [cells |-> cells, evalWait |-> evalWait, untrack |-> untrack,
          consumer |-> consumer, REQ |-> REQ, runner |-> runner,
          waiting |-> waiting, rbs |-> rbs, inv |-> NoInv, raised |-> 0]

\* The counters a throwing callback leaks are followed up to MaxCount.
Bounded(s) == s.evalWait <= MaxCount + 1 /\ s.untrack <= MaxCount

Install(s0) ==
    \E s \in {s0} :
        /\ Bounded(s)
        /\ cells' = s.cells
        /\ evalWait' = s.evalWait
        /\ untrack' = s.untrack
        /\ consumer' = s.consumer
        /\ REQ' = s.REQ
        /\ runner' = s.runner
        /\ waiting' = s.waiting
        /\ rbs' = s.rbs
        /\ inv' = s.inv
        /\ raised' = s.raised

Op(op, c, v, e) == [op |-> op, cell |-> c, val |-> v, thrown |-> e]

\* Invocations since the last write, counted up to MaxCalls.
Count(s) ==
    IF calls = <<>> THEN calls
    ELSE [c \in Cell |-> Min(calls[c] + s.inv[c], MaxCalls)]

Recount == IF calls = <<>> THEN calls ELSE NoInv

Constructed(s, counted) ==
    /\ cells = s.cells
    /\ evalWait = s.evalWait
    /\ untrack = s.untrack
    /\ consumer = s.consumer
    /\ REQ = s.REQ
    /\ runner = s.runner
    /\ waiting = s.waiting
    /\ rbs = s.rbs
    /\ tasks = <<>>
    /\ scopes = <<>>
    /\ inv = NoInv
    /\ calls = IF counted THEN NoInv ELSE <<>>
    /\ raised = 0
    /\ written = {}
    /\ last = Op("init", NoCell, Undefined, NoErr)

InitWith(LS, counted) == \E L \in LS : Constructed(Construct(Boot(Len(L)), L, 1), counted)

InitPure == InitWith(PureLayouts, TRUE)
InitCmp == InitWith(CmpLayouts, TRUE)
InitUntracked == InitWith(UntrackedLayouts, FALSE)

BatchOpen == \E i \in 1..Len(scopes) : scopes[i].kind = "batch"

\* c.wv = v
Write(c, v) ==
    /\ Install(wvSet(State, c, v))
    /\ calls' = Recount
    /\ written' = IF BatchOpen THEN written \cup {c} ELSE {}
    /\ last' = Op("write", c, v, NoErr)
    /\ UNCHANGED <<tasks, scopes>>

\* c.setter(vvf): the result is the value the cell holds afterwards.
Set(c, vvf) ==
    /\ Install(set(State, c, vvf))
    /\ calls' = Recount
    /\ written' = IF BatchOpen THEN written \cup {c} ELSE {}
    /\ last' = Op(IF vvf.fn THEN "setf" ELSE "set", c, cells'[c].v, NoErr)
    /\ UNCHANGED <<tasks, scopes>>

\* c.rv, read by the user task
ReadDone(r0, c) ==
    \E r \in {r0} :
        /\ Install(r.s)
        /\ calls' = Count(r.s)
        /\ last' = Op("read", c, r.val, r.thrown)
        /\ UNCHANGED <<tasks, scopes, written>>

Read(c) == ReadDone(rv(State, c), c)

Scope(kind, before) == [kind |-> kind, before |-> before]

\* batch(cb): up to the call of cb
BatchEnter ==
    /\ Len(scopes) < MaxDepth
    /\ evalWait < MaxCount
    /\ Install(batchEnter(State))
    /\ scopes' = <<Scope("batch", evalWait)>> \o scopes
    /\ written' = IF BatchOpen THEN written ELSE {}
    /\ last' = Op("batchEnter", NoCell, Undefined, NoErr)
    /\ UNCHANGED <<tasks, calls>>

\* batch(cb): cb returned
BatchReturn ==
    /\ scopes # <<>> /\ Head(scopes).kind = "batch"
    /\ Install(batchReturn(State))
    /\ scopes' = Tail(scopes)
    /\ last' = Op("batchReturn", NoCell, Undefined, NoErr)
    /\ UNCHANGED <<tasks, calls, written>>

\* Faulty variant: a timer callback that interrupts the running task.
HostAny == TRUE

\* setTimeout: the host starts a macrotask only when the user task has
\* returned.
HostIdle == scopes = <<>>

After(st0) ==
    \E st \in {st0} :
        /\ Install(st.s)
        /\ calls' = Count(st.s)
        /\ UNCHANGED <<scopes, written>>

Started(st0) ==
    \E st \in {st0} :
        /\ After(st)
        /\ tasks' = IF st.pc = "done" THEN tasks ELSE Append(tasks, st.pc)
        /\ last' = Op("timer", st.ro, st.tier, NoErr)

\* The runner timer fires.
TimerFire ==
    /\ runner
    /\ HostIdle
    /\ Started(runnerStart(State))

Remove(q, i) == SubSeq(q, 1, i - 1) \o SubSeq(q, i + 1, Len(q))

Resumed(st0, i) ==
    \E st \in {st0} :
        /\ After(st)
        /\ tasks' = IF st.pc = "done" THEN Remove(tasks, i)
                    ELSE [tasks EXCEPT ![i] = st.pc]
        /\ last' = Op("resume", st.ro, st.tier, NoErr)

\* A suspended runner task continues.
RunnerResume(i) ==
    /\ HostIdle
    /\ Resumed(runnerResume(State, tasks[i]), i)

\* batch(cb): cb threw
BatchThrow ==
    /\ scopes # <<>> /\ Head(scopes).kind = "batch"
    /\ Install(batchThrow(State))
    /\ scopes' = Tail(scopes)
    /\ last' = Op("batchThrow", NoCell, Undefined, NoErr)
    /\ UNCHANGED <<tasks, calls, written>>

\* untracked(cb): up to the call of cb
UntrackedEnter ==
    /\ Len(scopes) < MaxDepth
    /\ untrack < MaxCount
    /\ Install(untrackedEnter(State))
    /\ scopes' = <<Scope("untracked", untrack)>> \o scopes
    /\ last' = Op("untrackedEnter", NoCell, Undefined, NoErr)
    /\ UNCHANGED <<tasks, calls, written>>

\* untracked(cb): cb returned
UntrackedReturn ==
    /\ scopes # <<>> /\ Head(scopes).kind = "untracked"
    /\ Install(untrackedReturn(State))
    /\ scopes' = Tail(scopes)
    /\ last' = Op("untrackedReturn", NoCell, Undefined, NoErr)
    /\ UNCHANGED <<tasks, calls, written>>

\* untracked(cb): cb threw
UntrackedThrow ==
    /\ scopes # <<>> /\ Head(scopes).kind = "untracked"
    /\ Install(untrackedThrow(State))
    /\ scopes' = Tail(scopes)
    /\ last' = Op("untrackedThrow", NoCell, Undefined, NoErr)
    /\ UNCHANGED <<tasks, calls, written>>

\* c.def = d
SetDef(c, d) ==
    /\ Install(defSet(State, c, d))
    /\ calls' = Recount
    /\ last' = Op("def", c, Undefined, NoErr)
    /\ UNCHANGED <<tasks, scopes, written>>

\* c.eager = e
SetEager(c, e) ==
    /\ Install(eagerSet(State, c, e))
    /\ last' = Op("eager", c, Undefined, NoErr)
    /\ UNCHANGED <<tasks, scopes, calls, written>>

\* c.unready()
Unready(c) ==
    /\ Install(unready(State, c))
    /\ last' = Op("unready", c, Undefined, NoErr)
    /\ UNCHANGED <<tasks, scopes, calls, written>>

\* wait(), called by the user task
Waited(r) ==
    /\ Install(r.s)
    /\ last' = Op("wait", NoCell, r.val, NoErr)
    /\ UNCHANGED <<tasks, scopes, calls, written>>

Wait == Waited(wait(State))

\* An access to the surface of a cell or of its read-only view.
Accessed(r0, op, c) ==
    \E r \in {r0} :
        /\ Install(r.s)
        /\ calls' = Count(r.s)
        /\ last' = Op(op, c, r.val, r.thrown)
        /\ UNCHANGED <<tasks, scopes, written>>

Access(c, k) == Accessed(access(State, c, k), k, c)

ViewRead(c) == Accessed(viewRv(State, c), "view.rv", c)

ViewWrite(c, v, strict) == Accessed(viewAssign(State, c, v, strict), "view.wv", c)

ViewError(c) == Accessed(viewError(State, c), "view.error", c)

\* The definitions assigned to a cell after construction.
DefMenu(c) ==
    CASE c = 1 -> {}
      [] c = 2 -> {Fn(<<1>>, 1), Throwing(<<1>>, "E"), Fn(<<2>>, 1)}
      [] c = 3 -> {}

\* The chain 1 -> 2 -> 3, with or without an untracked read and a failure.
AllLayouts ==
    { <<o1, Derived(Fn(<<1>>, 1), FALSE), Derived(d3, e3)>> :
        o1 \in {Source},
        d3 \in {Fn(<<2>>, 1), FnU(<<1>>, <<2>>, 0)},
        e3 \in BOOLEAN }

InitAll == InitWith(AllLayouts, FALSE)

NextAll ==
    \/ \E c \in {1, 3}, v \in Val : Write(c, v)
    \/ \E c \in Cell : Read(c)
    \/ \E c \in Cell : \E d \in DefMenu(c) : SetDef(c, d)
    \/ \E c \in Cell : Unready(c)
    \/ TimerFire
    \/ \E i \in 1..Len(tasks) : RunnerResume(i)

SpecAll == InitAll /\ [][NextAll]_vars

\* The user task with batch() and untracked() callbacks that may throw.
ScopeLayouts ==
    { <<Source, Derived(Fn(<<1>>, 1), FALSE), Derived(Fn(<<2>>, 1), e)>> :
        e \in BOOLEAN }

InitScopes == InitWith(ScopeLayouts, FALSE)

NextScopes ==
    \/ \E v \in Val : Write(1, v)
    \/ \E c \in Cell : Read(c)
    \/ BatchEnter
    \/ BatchReturn
    \/ BatchThrow
    \/ UntrackedEnter
    \/ UntrackedReturn
    \/ UntrackedThrow
    \/ TimerFire
    \/ \E i \in 1..Len(tasks) : RunnerResume(i)

SpecScopes == InitScopes /\ [][NextScopes]_vars

Next ==
    \/ \E c \in Cell, v \in Val : Write(c, v)
    \/ \E c \in Cell : Read(c)
    \/ BatchEnter
    \/ BatchReturn
    \/ TimerFire
    \/ \E i \in 1..Len(tasks) : RunnerResume(i)

SpecPure == InitPure /\ [][Next]_vars
SpecUntracked == InitUntracked /\ [][Next]_vars

\* The chain with comparators: the source takes values of both parities.
NextCmp ==
    \/ \E v \in 0..MaxCmpVal : Write(1, v)
    \/ \E c \in Cell : Read(c)
    \/ BatchEnter
    \/ BatchReturn
    \/ TimerFire
    \/ \E i \in 1..Len(tasks) : RunnerResume(i)

SpecCmp == InitCmp /\ [][NextCmp]_vars

\* Eager cells: every derived cell depends on cell 1, every write to cell 1
\* changes its value, and the user task reads no eager cell.
EagerLayouts ==
    { <<Source, Derived(Fn(<<1>>, 1), e2), Derived(d3, e3)>> :
        e2 \in BOOLEAN,
        d3 \in {Fn(<<1>>, 1), Fn(<<2>>, 1), Fn(<<1, 2>>, 0)},
        e3 \in BOOLEAN }

InitEager == InitWith(EagerLayouts, TRUE)

WriteChange(c, v) == v # cells[c].v /\ Write(c, v)

ReadLazy(c) == ~cells[c].eager /\ Read(c)

NextEager ==
    \/ \E v \in Val : WriteChange(1, v)
    \/ \E c \in Cell : ReadLazy(c)
    \/ BatchEnter
    \/ BatchReturn
    \/ TimerFire
    \/ \E i \in 1..Len(tasks) : RunnerResume(i)

SpecEager == InitEager /\ [][NextEager]_vars

\* Failing definitions: cell 1 is a constant or throws, cells 2 and 3 form a
\* chain on it, and the definition of cell 1 is reassigned.
Const(v) == Fn(<<>>, v)

ErrLayouts ==
    { <<Derived(d1, FALSE), Derived(Fn(<<1>>, 1), FALSE), Derived(Fn(<<2>>, 1), e3)>> :
        d1 \in {Const(0), Throwing(<<>>, "E")},
        e3 \in BOOLEAN }

InitErr == InitWith(ErrLayouts, TRUE)

ErrMenu == {Const(1), Throwing(<<>>, "E"), Throwing(<<>>, "F")}

NextErr ==
    \/ \E c \in Cell : Read(c)
    \/ \E d \in ErrMenu : SetDef(1, d)
    \/ \E v \in Val : Write(1, v)
    \/ TimerFire
    \/ \E i \in 1..Len(tasks) : RunnerResume(i)

SpecErr == InitErr /\ [][NextErr]_vars

\* Self-referential definitions: cell 2 reads itself or cell 3, cell 3 reads
\* cell 2 or the source.
SelfMenu == {Fn(<<2>>, 1), Fn(<<3>>, 1)}

SelfLayouts ==
    { <<Source, Derived(d2, e2), Derived(d3, e3)>> :
        d2 \in SelfMenu, e2 \in BOOLEAN,
        d3 \in {Fn(<<2>>, 1), Fn(<<1>>, 1)}, e3 \in BOOLEAN }

InitSelf == InitWith(SelfLayouts, FALSE)

NextSelf ==
    \/ \E c \in Cell : Read(c)
    \/ \E v \in Val : Write(1, v)
    \/ \E d \in SelfMenu : SetDef(2, d)
    \/ TimerFire
    \/ \E i \in 1..Len(tasks) : RunnerResume(i)

\* The host runs every timer and every continuation that is due.
RunnerFair ==
    /\ WF_vars(TimerFire)
    /\ WF_vars(\E i \in 1..Len(tasks) : RunnerResume(i))

SpecSelf == InitSelf /\ [][NextSelf]_vars /\ RunnerFair

\* The user task writes, reads, opens batches and asks for the settle
\* promise; a batch callback returns.
WaitLayouts ==
    { <<Source, Derived(Fn(<<1>>, 1), e2), Derived(Fn(<<2>>, 1), e3)>> :
        e2 \in BOOLEAN, e3 \in BOOLEAN }

InitWait == InitWith(WaitLayouts, FALSE)

NextWait ==
    \/ \E v \in Val : Write(1, v)
    \/ \E c \in Cell : Read(c)
    \/ BatchEnter
    \/ BatchReturn
    \/ Wait
    \/ TimerFire
    \/ \E i \in 1..Len(tasks) : RunnerResume(i)

SpecWait == InitWait /\ [][NextWait]_vars /\ RunnerFair /\ WF_vars(BatchReturn)

\* Failing evaluations in the queues: cell 2 throws after reading the
\* source, cell 3 is eager and reads the source or cell 2; the user task
\* writes the source and reads.
ThrowLayouts ==
    { <<Source, Derived(Throwing(<<1>>, "E"), e2), Derived(d3, TRUE)>> :
        e2 \in BOOLEAN, d3 \in {Fn(<<1>>, 1), Fn(<<2>>, 1)} }

InitThrow == InitWith(ThrowLayouts, FALSE)

NextSettle ==
    \/ \E v \in Val : Write(1, v)
    \/ \E c \in Cell : Read(c)
    \/ TimerFire
    \/ \E i \in 1..Len(tasks) : RunnerResume(i)

SpecThrow == InitThrow /\ [][NextSettle]_vars /\ RunnerFair

\* The diamond: cells 2 and 3 read the source, cell 4 reads cells 2 and 3.
DiamondLayouts ==
    { <<Source, Derived(Fn(<<1>>, 1), e2), Derived(Fn(<<1>>, 0), e3),
        Derived(Fn(<<2, 3>>, 0), e4)>> :
        e2 \in BOOLEAN, e3 \in BOOLEAN, e4 \in BOOLEAN }

InitDiamond == InitWith(DiamondLayouts, TRUE)

SpecDiamond == InitDiamond /\ [][NextSettle]_vars /\ RunnerFair

\* The operations on a bundle p: the user task assigns and deletes
\* members, calls array methods and update.  The new member cells come
\* from a pool of MaxMembers.
Room(n) == rbs.n + n <= MaxMembers

Mutated(s0, op, k, v) ==
    /\ Install(s0)
    /\ calls' = Recount
    /\ last' = Op(op, k, v, NoErr)
    /\ UNCHANGED <<tasks, scopes, written>>

\* p[k] = v, p.key = v
Assign(k, v) ==
    /\ k <= (IF rbs.isArray THEN Len(rbs.t) + 1 ELSE MaxKeys)
    /\ Room(1)
    /\ Mutated(hset(State, k, v), "assign", k, v)

\* delete p.key
Delete(k) ==
    /\ ~rbs.isArray
    /\ Mutated(hdelete(State, k), "delete", k, Undefined)

\* p.push(a), p.pop(), p.splice(a - 1, 1)
ArrayCall(fnn, a) ==
    /\ rbs.isArray
    /\ Room(1)
    /\ Mutated(aBatchFn(State, fnn, a), fnn, a, Undefined)

\* The sources of update: arrays of up to two values, objects with a value
\* or nothing at each key.
Sources ==
    IF rbs.isArray
    THEN {<<>>} \cup {<<v>> : v \in Val} \cup {<<v, w>> : v \in Val, w \in Val}
    ELSE [1..MaxKeys -> Val \cup {Undefined}]

\* reactiveBundle.update(p, src)
Update(src) ==
    /\ Room(Len(src))
    /\ Mutated(update(State, src), "update", NoCell, src)

\* The bundle is made from an array or an object of up to MaxKeys members;
\* then the subscriber is made: it reads p.__ alone, or p.__ and the
\* snapshot.
InitBundle ==
    \E isArray \in BOOLEAN, def \in {Fn(<<Aggregate>>, 0), Snapshot}, e \in BOOLEAN :
        \E iv \in IF isArray THEN {<<>>} \cup {<<v>> : v \in Val}
                                  \cup {<<v, w>> : v \in Val, w \in Val}
                   ELSE [1..MaxKeys -> Val \cup {Undefined}] :
            Constructed(reactive(reactiveBundle(Boot(Subscriber + MaxMembers),
                                                iv, isArray),
                                 Subscriber, Derived(def, e)), TRUE)

NextBundle ==
    \/ \E k \in 1..(MaxKeys + 1), v \in Val : Assign(k, v)
    \/ \E k \in 1..MaxKeys : Delete(k)
    \/ \E v \in Val : ArrayCall("push", v)
    \/ ArrayCall("pop", 0)
    \/ \E k \in 1..(MaxKeys + 1) : ArrayCall("splice", k)
    \/ \E src \in Sources : Update(src)
    \/ Read(Subscriber)
    \/ TimerFire
    \/ \E i \in 1..Len(tasks) : RunnerResume(i)

SpecBundle == InitBundle /\ [][NextBundle]_vars

\* Maybe-stale cells behind a provider with a cached outcome: cell 2 copies
\* the source, cell 3 reads cell 2 and returns or throws, cell 4 reads
\* cell 3 and lets its error through or catches it, or reads the source
\* and cell 3.
MaybeLayouts ==
    { <<Source, Derived(Fn(<<1>>, 0), FALSE), Derived(d3, FALSE), Derived(d4, e4)>> :
        d3 \in {Fn(<<2>>, 1), Throwing(<<2>>, "E")},
        d4 \in {Fn(<<3>>, 1), Catching(<<3>>, 0), Fn(<<1, 3>>, 0)},
        e4 \in BOOLEAN }

InitMaybe == InitWith(MaybeLayouts, FALSE)

SpecMaybe == InitMaybe /\ [][NextSettle]_vars /\ RunnerFair

\* A provider that fails for one value of the source and recovers with the
\* value it had before: the chain 1 -> 2 -> 3 with the failure in cell 2.
RecoverLayouts ==
    { <<Source, Derived(ThrowIf(<<1>>, "E", 0), FALSE), Derived(Fn(<<2>>, 1), e)>> :
        e \in BOOLEAN }

InitRecover == InitWith(RecoverLayouts, FALSE)

SpecRecover == InitRecover /\ [][NextSettle]_vars /\ RunnerFair

\* Setter calls with a value or with the mapping function, on the source
\* and on a cell with a definition of the chain 1 -> 2 -> 3.
SetArgs == {[fn |-> FALSE, v |-> v] : v \in Val} \cup {[fn |-> TRUE, v |-> Undefined]}

SetLayouts ==
    { <<Source, Derived(Fn(<<1>>, 1), FALSE), Derived(Fn(<<2>>, 1), e)>> :
        e \in BOOLEAN }

InitSet == InitWith(SetLayouts, FALSE)

NextSet ==
    \/ \E c \in {1, 2} : \E vvf \in SetArgs : Set(c, vvf)
    \/ \E c \in Cell : Read(c)
    \/ SetDef(2, Fn(<<1>>, 1))
    \/ TimerFire
    \/ \E i \in 1..Len(tasks) : RunnerResume(i)

SpecSet == InitSet /\ [][NextSet]_vars

\* The surface of the cells and of their read-only views: the user task
\* writes, reads, redefines cell 2, asks for its cached objects and reads and
\* assigns through its view.
ViewMenu == {Fn(<<1>>, 1), Fn(<<1>>, 0)}

NextView ==
    \/ \E v \in Val : Write(1, v)
    \/ \E c \in Cell : Read(c)
    \/ \E d \in ViewMenu : SetDef(2, d)
    \/ \E k \in AccessKinds : Access(2, k)
    \/ ViewRead(2)
    \/ \E v \in Val, strict \in BOOLEAN : ViewWrite(2, v, strict)
    \/ TimerFire
    \/ \E i \in 1..Len(tasks) : RunnerResume(i)

SpecView == InitWait /\ [][NextView]_vars

\* The view of a cell whose definition returns or throws.
ViewErrMenu == {Fn(<<1>>, 1), Throwing(<<1>>, "E")}

NextViewErr ==
    \/ \E v \in Val : Write(1, v)
    \/ \E c \in Cell : Read(c)
    \/ \E d \in ViewErrMenu : SetDef(2, d)
    \/ Access(2, "readonlyView")
    \/ ViewRead(2)
    \/ ViewError(2)
    \/ TimerFire
    \/ \E i \in 1..Len(tasks) : RunnerResume(i)

SpecViewErr == InitWait /\ [][NextViewErr]_vars

(***************************************************************************)
(* Notions the properties are stated with.                                 *)
(***************************************************************************)
HasDef(c) == cells[c].def.kind # "none"

\* The value of a cell computed bottom-up from the current source values.
RECURSIVE Ideal(_)
Ideal(c) ==
    LET d == cells[c].def
        ps == d.reads \o d.ureads
    IN  IF d.kind = "none" THEN cells[c].v
        ELSE DefValue(d, [i \in 1..Len(ps) |-> Ideal(ps[i])])

\* Every definition is a pure tracked function, every comparator the default.
PureGraph ==
    \A c \in Cell :
        /\ cells[c].cmp = "defcmp"
        /\ cells[c].def.ureads = <<>>
        /\ cells[c].def.throws = NoErr

\* The direct and the transitive consumers of a cell.
Consumers(c) == Elems(cells[c].cons)

RECURSIVE ConsumersUpTo(_, _)
ConsumersUpTo(S, n) ==
    IF n = 0 THEN S
    ELSE ConsumersUpTo(S \cup UNION {Consumers(k) : k \in S}, n - 1)

TransConsumers(c) == ConsumersUpTo(Consumers(c), Cardinality(Cell))

\* The exception a bottom-up evaluation of a cell ends with, if any: that
\* of the first read that fails, or the one the definition throws itself.
RECURSIVE IdealErr(_), FirstErr(_, _)
IdealErr(c) ==
    IF cells[c].def.kind = "none" THEN NoErr
    ELSE FirstErr(cells[c].def, 1)

FirstErr(d, i) ==
    IF i > Len(d.reads \o d.ureads) THEN d.throws
    ELSE IF IdealErr((d.reads \o d.ureads)[i]) # NoErr
         THEN IdealErr((d.reads \o d.ureads)[i])
         ELSE FirstErr(d, i + 1)

\* The cells a definition reads, and the cells whose definition reads
\* itself directly or through other cells.
DefReads(c) == Elems(cells[c].def.reads \o cells[c].def.ureads)

RECURSIVE DefReadsUpTo(_, _)
DefReadsUpTo(c, n) ==
    IF n = 0 THEN {}
    ELSE DefReads(c) \cup UNION {DefReads(k) : k \in DefReadsUpTo(c, n - 1)}

SelfReferential(c) == c \in DefReadsUpTo(c, Cardinality(Cell))

RunnerOps == {"timer", "resume"}

\* The last step was c.wv = v.
Wrote(c, v) == last'.op = "write" /\ last'.cell = c /\ last'.val = v

\* The change flags of c.wv = v: the comparator on the stored value, and on
\* undefined in between when the write clears a definition first.
WriteChanges(c, v) ==
    IF HasDef(c)
    THEN \/ Changed(cells[c].cmp, cells[c].v, Undefined)
         \/ Changed(cells[c].cmp, Undefined, v)
    ELSE Changed(cells[c].cmp, cells[c].v, v)

\* The edges of the chain 1 -> 2 -> 3 are recorded.
Chain == Elems(cells[2].pros) = {1} /\ Elems(cells[3].pros) = {2}

\* Settle: the queues are empty, no runner is armed or suspended and no
\* batch is in progress.
Settled ==
    /\ tasks = <<>> /\ ~runner /\ scopes = <<>> /\ evalWait = 0
    /\ REQ = <<<<>>, <<>>, <<>>>>

(***************************************************************************)
(* C1: in an acyclic graph of pure definitions with the default            *)
(* comparator, after any sequence of writes, batches and scheduler steps,  *)
(* a read of a derived cell returns the value obtained by evaluating the   *)
(* definitions bottom-up on the current source values.                     *)
(***************************************************************************)
C1_ReadIsCurrent ==
    /\ PureGraph
    /\ (last.op = "read" /\ HasDef(last.cell))
           => (last.thrown = NoErr /\ last.val = Ideal(last.cell))

\* Inside a batch, a read of the end of the chain recomputed both derived
\* cells after a write to the source.
C1_Witness ==
    /\ PureGraph
    /\ BatchOpen /\ written = {1}
    /\ last.op = "read" /\ last.cell = 3
    /\ cells[3].def.reads = <<2>> /\ cells[2].def.reads = <<1>>
    /\ inv[3] = 1 /\ inv[2] = 1
    /\ cells[1].v = 1
    /\ last.val = 3

(***************************************************************************)
(* C2: edge symmetry.  Whenever no definition is being evaluated, c is a   *)
(* consumer of p if and only if p is a provider of c, after any sequence   *)
(* of reads, writes, definition assignments, failed evaluations, untracked *)
(* reads and scheduler runs.                                               *)
(***************************************************************************)
C2_EdgeSymmetry ==
    consumer = NoCell =>
        \A p \in Cell, c \in Cell :
            c \in Elems(cells[p].cons) <=> p \in Elems(cells[c].pros)

\* A failed evaluation left its edge behind, next to an untracked read.
C2_Witness ==
    /\ consumer = NoCell
    /\ cells[2].error = "E"
    /\ Elems(cells[2].pros) = {1} /\ 2 \in Consumers(1)
    /\ cells[3].def.ureads = <<2>> /\ cells[3].rdy = "ready"
    /\ Elems(cells[3].pros) = {1}

(***************************************************************************)
(* C3: ripple is synchronous and complete.  From every reachable state,    *)
(* when a write that the comparator reports as a change returns, every     *)
(* direct consumer of the written cell is stale and every transitive       *)
(* consumer is not ready, and the write has invoked no definition.         *)
(***************************************************************************)
C3_RippleComplete ==
    [][\A c \in Cell :
          (Wrote(c, last'.val) /\ WriteChanges(c, last'.val)) =>
              /\ \A k \in Consumers(c)' : cells'[k].rdy = "stale"
              /\ \A k \in TransConsumers(c)' : cells'[k].rdy # "ready"
              /\ inv' = NoInv]_vars

C5_WriteStep ==
    (/\ Wrote(1, last'.val) /\ WriteChanges(1, last'.val)
     /\ Chain /\ cells[2].rdy = "ready" /\ cells[3].rdy = "ready") =>
         /\ cells'[2].rdy = "stale"
         /\ cells'[3].rdy = "maybe"

C5_ReadStep ==
    (/\ last'.op = "read" /\ last'.cell = 3
     /\ Chain /\ cells[2].rdy = "stale" /\ cells[3].rdy = "maybe"
     /\ ~Changed(cells[2].cmp, cells[2].v, Ideal(2))) =>
         /\ inv'[2] = 1 /\ inv'[3] = 0
         /\ cells'[3].rdy = "ready"
         /\ cells'[3].v = cells[3].v
         /\ last'.thrown = NoErr /\ last'.val = cells[3].v

\* A resumed runner has settled the graph after a write: cell 2 was
\* re-evaluated once, cell 3 was neither re-evaluated nor told of a change.
C5_SettleCase ==
    /\ Settled /\ Chain /\ last.op = "resume"
    /\ calls[2] = 1 /\ calls[3] = 0
    /\ cells[2].rdy = "ready" /\ cells[3].rdy # "stale"

C6_BatchOnce ==
    (cells[3].def.reads = <<1, 2>> /\ written = {1, 2} /\ ~BatchOpen) =>
        /\ calls[3] <= 1
        /\ calls[3] = 1 =>
               /\ cells[3].rdy = "ready"
               /\ cells[3].v = JSAdd(cells[1].v, cells[2].v)

\* The scheduler evaluated the eager cell 3 once after the batch.
C6_Witness ==
    /\ cells[3].def.reads = <<1, 2>> /\ written = {1, 2} /\ ~BatchOpen
    /\ last.op = "timer"
    /\ calls[3] = 1 /\ inv[3] = 1
    /\ cells[1].v = 1 /\ cells[2].v = 1 /\ cells[3].v = 2

C8_CountersRestored ==
    [][/\ last'.op = "batchThrow" => evalWait' = Head(scopes).before
       /\ last'.op = "untrackedThrow" => untrack' = Head(scopes).before]_vars

(***************************************************************************)
(* C9: untracked isolation.  A read inside untracked() records no edge,    *)
(* also while a definition is evaluating.  A write to a cell that was read *)
(* only inside untracked() leaves the readiness of the reader as it was    *)
(* and invokes nothing, and a read of the ready reader does not invoke its *)
(* definition; a write that changes a tracked provider makes it stale.     *)
(***************************************************************************)
C9_UntrackedIsolation ==
    [][(cells[3].def.ureads = <<2>> /\ cells[3].def.reads = <<1>>) =>
          /\ 2 \notin Elems(cells'[3].pros)
          /\ 3 \notin Elems(cells'[2].cons)
          /\ Wrote(2, last'.val) =>
                 /\ cells'[3].rdy = cells[3].rdy
                 /\ inv' = NoInv
          /\ (last'.op = "read" /\ last'.cell = 3 /\ cells[3].rdy = "ready") =>
                 /\ inv' = NoInv
                 /\ last'.val = cells[3].v
          /\ (/\ Wrote(1, last'.val) /\ WriteChanges(1, last'.val)
              /\ 1 \in Elems(cells[3].pros)) =>
                 cells'[3].rdy = "stale"]_vars

\* Cell 3 was evaluated, cell 2 was written afterwards: cell 3 is ready
\* with the value it computed from the old value of cell 2.
C9_Witness ==
    /\ cells[3].def.ureads = <<2>>
    /\ last.op = "write" /\ last.cell = 2
    /\ Elems(cells[3].pros) = {1} /\ cells[2].cons = <<>>
    /\ cells[3].rdy = "ready"
    /\ cells[2].v = 1 /\ cells[1].v = 0 /\ cells[3].v = 0

(***************************************************************************)
(* C10: lazy default.  A derived cell without eager is enqueued only when  *)
(* it has consumers.  While it has none and is in no queue, its definition *)
(* is invoked only by a read of the cell, the user's or that of another    *)
(* cell's definition: not before its first read, and not by the writes to  *)
(* its providers and the scheduler runs that follow a read.  A read of the *)
(* cell invokes its definition once when the cell is stale and not at all  *)
(* when it is ready.                                                       *)
(***************************************************************************)
Lazy(c) == HasDef(c) /\ ~cells[c].eager

C11_EagerOnce ==
    Settled =>
        \A b \in Cell :
            (HasDef(b) /\ cells[b].eager /\ 1 \in Elems(cells[b].def.reads)) =>
                /\ calls[b] = 1
                /\ cells[b].rdy = "ready"
                /\ cells[b].error = NoErr
                /\ cells[b].v = Ideal(b)

\* The runner has settled the graph after a write of 1: the eager terminal
\* cell 3 = cell 1 + 1 was evaluated once and holds 2.
C11_Witness ==
    /\ Settled /\ last.op = "resume"
    /\ cells[3].eager /\ cells[3].def.reads = <<1>> /\ cells[3].cons = <<>>
    /\ ~cells[2].eager
    /\ cells[1].v = 1
    /\ calls[3] = 1 /\ cells[3].v = 2

(***************************************************************************)
(* C12: error propagation and caching.  When the definition of cell 1      *)
(* throws E, a read of cell 1, of cell 2 (defined from 1) and of cell 3    *)
(* (defined from 2) throws E; after a read of cell 1 its error attribute   *)
(* holds E, and a repeated read throws E without invoking the definition.  *)
(***************************************************************************)
C12_ErrorPropagates ==
    [][/\ (last'.op = "read" /\ IdealErr(last'.cell) # NoErr) =>
              last'.thrown = IdealErr(last'.cell)
       /\ (last'.op = "read" /\ last'.cell = 1 /\ IdealErr(1) # NoErr) =>
              cells'[1].error = IdealErr(1)
       /\ (/\ last'.op = "read" /\ last'.cell = 1
           /\ cells[1].error # NoErr /\ cells[1].rdy = "ready") =>
              /\ inv' = NoInv
              /\ last'.thrown = cells[1].error
              /\ cells'[1].error = cells[1].error]_vars

(***************************************************************************)
(* C13: recovery after definition reassignment.  Right after the           *)
(* definition of cell 1 has been replaced by one that succeeds, with no    *)
(* read of cell 1 and no scheduler step in between, a read of its consumer *)
(* cell 2 or of cell 3 returns the value computed from the new definition. *)
(***************************************************************************)
C13_RecoveryAfterDef ==
    [][(/\ last.op = "def" /\ last.cell = 1 /\ IdealErr(1) = NoErr
        /\ last'.op = "read" /\ last'.cell \in {2, 3}) =>
           /\ last'.thrown = NoErr
           /\ last'.val = Ideal(last'.cell)]_vars

(***************************************************************************)
(* C14: post-evaluation state.  A cell whose definition was evaluated in   *)
(* a step is ready when the step ends; the cell a read evaluated has the   *)
(* exception the read threw as its error, none after a success; after a    *)
(* failed evaluation the stored value is the one before it and every       *)
(* consumer has been rippled (is non-ready, or was evaluated anew itself). *)
(***************************************************************************)
Evaluated(c) == inv'[c] >= 1

Failed(c) == Evaluated(c) /\ cells'[c].error # NoErr

C14_PostEvaluation ==
    [][\A c \in Cell :
         /\ Evaluated(c) => cells'[c].rdy = "ready"
         /\ (Evaluated(c) /\ last'.op = "read" /\ last'.cell = c) =>
                cells'[c].error = last'.thrown
         /\ Failed(c) =>
                /\ cells'[c].v = cells[c].v
                /\ \A k \in Elems(cells'[c].cons) :
                       cells'[k].rdy # "ready" \/ Evaluated(k)]_vars

(***************************************************************************)
(* The parts of self-reference detection: the rejected read, the flags,   *)
(* and the other cell the runner has to go on with.                        *)
(***************************************************************************)
C15_ReadRejected ==
    (last'.op = "read" /\ SelfReferential(last'.cell)) =>
        /\ last'.thrown = SelfRef
        /\ cells'[last'.cell].v = cells[last'.cell].v
        /\ cells'[last'.cell].def = cells[last'.cell].def

C15_FlagsCleared == \A c \in Cell : ~cells'[c].busy

C15_OtherCell ==
    cells[3].eager /\ cells[3].def.reads = <<1>> /\ cells[3].rdy # "ready"

Tier == 0..2

Holds(d, c) == c \in Elems(REQ[d + 1])

Occurrences(d, c) == Cardinality({i \in 1..Len(REQ[d + 1]) : REQ[d + 1][i] = c})

C16_QueueMembership ==
    \A c \in Cell :
        /\ \A d \in Tier : Occurrences(d, c) <= 1
        /\ \A d, e \in Tier : (Holds(d, c) /\ Holds(e, c)) => d = e
        /\ cells[c].sched = NoTier <=> \A d \in Tier : ~Holds(d, c)
        /\ \A d \in Tier : cells[c].sched = d <=> Holds(d, c)

C16_Witness ==
    /\ last.op = "read"
    /\ cells[last.cell].sched = NoTier
    /\ \E c, k \in Cell : Holds(0, c) /\ Holds(1, k)

(***************************************************************************)
(* C17: tier ordering.  A runner step takes a cell from tier 1 only when   *)
(* tier 0 is empty and from tier 2 only when tiers 0 and 1 are empty, at   *)
(* most one cell per step; the cell is the first of its tier; after a cell *)
(* of tier 1 or 2 the task continues at the head of the loop, so that the  *)
(* next step drains tier 0 first, whatever was queued in between.          *)
(***************************************************************************)
Took(d) == last'.op \in RunnerOps /\ last'.val = d

C17_TierOrdering ==
    [][/\ Took(1) => REQ[1] = <<>>
       /\ Took(2) => REQ[1] = <<>> /\ REQ[2] = <<>>
       /\ \A d \in 0..2 : Took(d) => last'.cell = Head(REQ[d + 1])
       /\ (last'.op \in RunnerOps /\ REQ[1] # <<>> /\ evalWait < 2) =>
              (Took(0) \/ (last'.op = "timer" /\ evalWait # 0))]_vars

C17_Witness ==
    /\ last.op = "resume" /\ last.val = 0
    /\ tasks = <<"q0">>
    /\ REQ[2] # <<>> /\ REQ[3] # <<>>

Enters(d, c) == ~Holds(d, c) /\ Holds(d, c)'

\* The value of p changed, its evaluation failed or its definition was
\* cleared (by a write) in this step.
RippledFrom(p) ==
    \/ cells'[p].v # cells[p].v
    \/ Failed(p)
    \/ cells[p].def.kind # "none" /\ cells'[p].def.kind = "none"

ConsumedBy(p, c) == c \in Elems(cells[p].cons) \/ c \in Elems(cells'[p].cons)

\* The cells a ripple from p reaches in one to n steps along consumer edges.
RECURSIVE Downstream(_, _)
Downstream(p, n) ==
    IF n = 0 THEN {}
    ELSE {c \in Cell : ConsumedBy(p, c)}
         \cup {c \in Cell : \E q \in Downstream(p, n - 1) : ConsumedBy(q, c)}

Empty == REQ[1] = <<>> /\ REQ[2] = <<>> /\ REQ[3] = <<>>

C19_RunnerArmed == (evalWait = 0 /\ ~Empty) => (runner \/ tasks # <<>>)

UserStep == last'.op \notin RunnerOps

(***************************************************************************)
(* C19: forward progress.  Whenever the evaluation-wait depth is 0 and a   *)
(* queue is non-empty, a runner is armed or active; and unless the user    *)
(* task keeps operating on the cells for ever, the queues are eventually   *)
(* empty for good.                                                         *)
(***************************************************************************)
C19_ForwardProgress ==
    /\ []C19_RunnerArmed
    /\ ([]<><<UserStep>>_vars) \/ (<>[]Empty)

(***************************************************************************)
(* Notions for wait(): the program is quiet when every queue is empty and  *)
(* no evaluation-wait is in progress.                                      *)
(***************************************************************************)
Quiet == Empty /\ evalWait = 0

C20_ResolvedWhenQuiet == (last'.op = "wait" /\ Quiet) => last'.val = Resolved

C20_ResolvedOnlyWhenEmpty ==
    /\ (last'.op = "wait" /\ last'.val = Resolved) => Empty
    /\ (waiting /\ ~waiting') => Empty'

(***************************************************************************)
(* C20: wait().  The promise returned is already resolved when all queues  *)
(* are empty and the evaluation-wait depth is 0; a promise is resolved     *)
(* only when the queues are empty; and no promise stays pending for ever   *)
(* once the queues are empty and no evaluation-wait is in progress.        *)
(***************************************************************************)
C20_WaitSemantics ==
    /\ [][C20_ResolvedWhenQuiet /\ C20_ResolvedOnlyWhenEmpty]_vars
    /\ []<>~(waiting /\ Quiet)

(***************************************************************************)
(* C21: at most one runner task is armed or in flight at any time,         *)
(* whatever calls run(): the timer and the suspended runner tasks count    *)
(* one at most between them.                                               *)
(***************************************************************************)
C21_SingleRunner == Len(tasks) + (IF runner THEN 1 ELSE 0) <= 1

\* run() was called by a write while a runner task is suspended at a yield
\* and a cell is queued: no timer is armed.
C21_Witness ==
    /\ tasks # <<>> /\ last.op = "write" /\ ~Empty /\ ~runner
    /\ evalWait = 1

(***************************************************************************)
(* Notions for the runner and failing evaluations: the step in which a     *)
(* runner task that entered its loop ends, and the cells somebody wants.   *)
(***************************************************************************)
RunnerDone ==
    /\ last'.op \in RunnerOps
    /\ tasks' = <<>>
    /\ tasks # <<>> \/ evalWait = 0

Queued(c) == \E d \in Tier : Holds(d, c)

\* The evaluation of c in this step ended in the catch block.
Threw(c) == Evaluated(c) /\ (cells'[c].def.throws # NoErr \/ Failed(c))

C22_GoesOn ==
    \A c \in Cell :
        (last'.op \in RunnerOps /\ last'.cell = c /\ Threw(c)) =>
            /\ cells'[c].error # NoErr
            /\ cells'[c].rdy = "ready"
            /\ ~Empty' => tasks' # <<>>

C22_Finish == RunnerDone => (evalWait' = 0 /\ Empty')

(***************************************************************************)
(* C22: an exception thrown by the evaluation of a queued cell does not    *)
(* stop the runner.  After a failed evaluation by the runner the cell is   *)
(* ready with its error cached and the runner goes on while a cell is      *)
(* queued; when the runner finishes the queues are empty and the           *)
(* evaluation-wait depth is 0; and unless the user task keeps operating    *)
(* for ever, every queued cell is taken from its queue.                    *)
(***************************************************************************)
C22_RunnerSurvives ==
    /\ [][C22_GoesOn /\ C22_Finish]_vars
    /\ ([]<><<UserStep>>_vars) \/ (\A c \in 1..3 : []<>~Queued(c))

(***************************************************************************)
(* The parts of detaching by assignment: what the write leaves, and what   *)
(* later steps do to a cell without definition.                            *)
(***************************************************************************)
C23_WriteDetaches ==
    \A c \in Cell :
        (last'.op = "write" /\ last'.cell = c) =>
            /\ cells'[c].def = NoDef
            /\ cells'[c].pros = <<>>
            /\ \A p \in Cell : c \notin Elems(cells'[p].cons)

C23_StaysDetached ==
    \A c \in Cell :
        (cells[c].def = NoDef /\ ~(last'.op \in {"write", "def"} /\ last'.cell = c)) =>
            /\ cells'[c].def = NoDef
            /\ cells'[c].pros = <<>>
            /\ cells'[c].v = cells[c].v
            /\ cells'[c].rdy = "ready"

(***************************************************************************)
(* C23: assigning a concrete value to a cell with a definition leaves the  *)
(* cell with no definition, no provider and in no consumer set; from then  *)
(* on only a write or a new definition of the cell itself changes its      *)
(* value, and it stays ready whatever its former providers do.             *)
(***************************************************************************)
C23_AssignmentDetaches == [][C23_WriteDetaches /\ C23_StaysDetached]_vars

\* Cell 3, defined from cell 2, was assigned a value; a later write to the
\* source made cell 2, its former provider, non-ready.
C23_Witness ==
    /\ last.op = "write" /\ last.cell = 1
    /\ cells[3].def = NoDef /\ cells[3].v # Undefined
    /\ cells[2].def.reads = <<1>> /\ cells[2].v # Undefined
    /\ cells[1].cons = <<2>> /\ cells[2].rdy = "stale"

(***************************************************************************)
(* The parts of the read-only view: a read through the view is a read of   *)
(* the source, and an assignment through the view is rejected.             *)
(***************************************************************************)
C24_ViewReads ==
    \A c \in Cell :
        (last'.op = "view.rv" /\ last'.cell = c) =>
            /\ last'.val = rv(State, c).val
            /\ last'.thrown = rv(State, c).thrown

Core(k) == [f \in {"v", "def", "rdy", "error", "pros", "cons"} |-> k[f]]

C24_ViewRejects ==
    \A c \in Cell :
        (last'.op = "view.wv" /\ last'.cell = c) =>
            /\ last'.thrown = TypeErr
            /\ \A k \in Cell : Core(cells'[k]) = Core(cells[k])

(***************************************************************************)
(* C24: a read-only view exposes no mutator.  An assignment through the    *)
(* view fails with a type error and leaves the value, the definition and   *)
(* the readiness of every cell as they were, and a read through the view   *)
(* returns or throws what a read of the source does.                       *)
(***************************************************************************)
C24_ReadOnlyView == [][C24_ViewReads /\ C24_ViewRejects]_vars

(***************************************************************************)
(* The parts of identity stability: a cached object, once made, is never   *)
(* replaced, and every access returns the cached object.                   *)
(***************************************************************************)
C30_NeverReplaced ==
    \A c \in Cell : \A f \in {"g", "st", "rov", "rovg"} :
        cells[c][f] # 0 => cells'[c][f] = cells[c][f]

C30_ReturnsCached ==
    \A c \in Cell :
        last'.cell = c =>
            /\ last'.op = "getter" => (last'.val = cells'[c].g /\ last'.val # 0)
            /\ last'.op = "setter" => (last'.val = cells'[c].st /\ last'.val # 0)
            /\ last'.op = "readonlyView" => (last'.val = cells'[c].rov /\ last'.val # 0)
            /\ last'.op = "accessors" =>
                   (last'.val = <<cells'[c].g, cells'[c].st>> /\ cells'[c].g # 0
                    /\ cells'[c].st # 0)
            /\ last'.op = "view.getter" => (last'.val = cells'[c].g /\ last'.val # 0)

(***************************************************************************)
(* C30: identity stability.  Repeated access to getter, to setter and to   *)
(* readonlyView returns the same object each time, also across writes and  *)
(* definition changes; accessors is the pair of that getter and that       *)
(* setter; and the getter of the read-only view is the source's getter.    *)
(***************************************************************************)
C30_IdentityStable == [][C30_NeverReplaced /\ C30_ReturnsCached]_vars

\* The getter of the view is asked for when the getter, the setter and the
\* view exist already and the definition of the cell has been changed.
C30_Witness ==
    /\ last.op = "view.getter" /\ last.cell = 2 /\ last.val = 1
    /\ cells[2].g = 1 /\ cells[2].st = 1 /\ cells[2].rov = 1
    /\ cells[2].def = Fn(<<1>>, 0) /\ cells[2].v # Undefined

(***************************************************************************)
(* The cells whose failure nobody observes: those whose evaluation failed  *)
(* in the step and that are eager and have no consumer.                    *)
(***************************************************************************)
Unheard == {c \in Cell : Failed(c) /\ cells'[c].eager /\ cells'[c].cons = <<>>}

(***************************************************************************)
(* C28: when the definition of an eager cell with no consumers throws      *)
(* during an evaluation, the error is cached and rethrown to the reader    *)
(* and re-raised once on a separate asynchronous task; nothing is          *)
(* re-raised for a failing cell that is lazy or has a consumer.  raised    *)
(* counts the tasks a step queued for re-raising.                          *)
(***************************************************************************)
C28_AsyncReraise ==
    [][/\ raised' = Cardinality(Unheard)
       /\ \A c \in Cell :
              (last'.op = "read" /\ last'.cell = c /\ Failed(c)) =>
                  last'.thrown = cells'[c].error]_vars

\* The runner evaluated the eager cell 2, which nobody consumes; it threw
\* and one task re-raises the error.
C28_Witness ==
    /\ last.op \in RunnerOps /\ last.cell = 2 /\ raised = 1
    /\ cells[2].eager /\ cells[2].cons = <<>> /\ cells[2].error = "E"

(***************************************************************************)
(* The diamond 1 -> {2, 3} -> 4.  calls counts the invocations since the   *)
(* last write.                                                             *)
(***************************************************************************)
\* An observable write to the source leaves cell 4 non-ready.
C29_WriteInvalidates ==
    \A v \in Val : (Wrote(1, v) /\ v # cells[1].v) => cells'[4].rdy # "ready"

\* The step that makes cell 4 ready again invokes its definition once when
\* the writes since its last evaluation left it out of date, and at most
\* once when they restored the source.
C29_OnePass ==
    (cells[4].rdy # "ready" /\ cells'[4].rdy = "ready") =>
        /\ cells[4].v # Ideal(4) => inv'[4] = 1
        /\ inv'[4] <= 1 /\ inv'[2] <= 1 /\ inv'[3] <= 1

\* A read of cell 4 returns the value of the current source.
C29_ReadOfD ==
    (last'.op = "read" /\ last'.cell = 4) =>
        (last'.val = Ideal(4)' /\ last'.thrown = NoErr /\ cells'[4].rdy = "ready")

\* Since the last write no definition ran twice, and a ready cell 4 holds
\* the sum of the current cells 2 and 3.
C29_NeverMixed ==
    /\ \A c \in 2..4 : calls[c] <= 1
    /\ cells[4].rdy = "ready" =>
           (cells[4].v = Ideal(4) /\ cells[4].v = JSAdd(Ideal(2), Ideal(3)))

\* Settle with an eager cell 4: it has been evaluated.
C29_SettleCase ==
    (Settled /\ cells[4].eager) => cells[4].rdy = "ready"

(***************************************************************************)
(* C29: diamond single pass: with A read by B and C, and D reading B and   *)
(* C, one observable write to A followed by a read of D (or, when D is     *)
(* eager, by a settle) invokes D's definition exactly once and B's and     *)
(* C's at most once each, and D's value is computed from the new B and     *)
(* the new C, never from a mix of old and new.                             *)
(***************************************************************************)
C29_DiamondSinglePass ==
    /\ [](C29_NeverMixed /\ C29_SettleCase)
    /\ [][C29_WriteInvalidates /\ C29_OnePass /\ C29_ReadOfD]_vars

\* After the write of 1 to the source, the read of the lazy cell 4 ran each
\* of the three definitions once and returned 2 + 1.
C29_Witness ==
    /\ last.op = "read" /\ last.cell = 4 /\ last.val = 3
    /\ cells[1].v = 1 /\ ~cells[4].eager
    /\ calls = <<0, 1, 1, 1>>

\* The subscriber holds the value it read from the bundle as it is now.
BundleCurrent ==
    /\ cells[Subscriber].rdy = "ready"
    /\ cells[Subscriber].v =
           IF cells[Subscriber].def = Snapshot THEN JSSum(<<0>> \o Values(State))
           ELSE Proxy

\* The step added a member, removed one, or assigned another value to one.
Added == \E k \in 1..Len(rbs'.t) : ~hasOwn(rbs.t, k) /\ hasOwn(rbs'.t, k)

Removed == \E k \in 1..Len(rbs.t) : hasOwn(rbs.t, k) /\ ~hasOwn(rbs'.t, k)

Replaced ==
    /\ last'.op = "assign" /\ hasOwn(rbs.t, last'.cell)
    /\ cells[rbs.t[last'.cell]].v # last'.val

\* The subscriber read p.__ alone, and is ready.
SubscribedToAggregate ==
    /\ cells[Subscriber].def = Fn(<<Aggregate>>, 0)
    /\ cells[Subscriber].rdy = "ready"
    /\ cells[Subscriber].pros = <<Aggregate>>
    /\ Subscriber \in Elems(cells[Aggregate].cons)

(***************************************************************************)
(* C25: bundle structural ripple: a cell whose definition read only the    *)
(* bundle's aggregate cell (p.__) becomes non-ready whenever a member of p *)
(* is added, removed (deleted) or replaced by assignment.                  *)
(***************************************************************************)
C25_StructuralRipple ==
    [][(SubscribedToAggregate /\ (Added \/ Removed \/ Replaced)) =>
           cells'[Subscriber].rdy # "ready"]_vars

\* The subscriber is eager and reads p.__ and the snapshot of the array p.
EagerSnapshot ==
    /\ rbs.isArray
    /\ cells[Subscriber].def = Snapshot
    /\ cells[Subscriber].eager

ArrayCalls == {"push", "pop", "splice"}

\* A mutating call that changed the contents leaves the subscriber
\* non-ready and queued, and the runner armed.
C26_CallInvalidates ==
    (last'.op \in ArrayCalls /\ Values(State)' # Values(State)) =>
        /\ cells'[Subscriber].rdy # "ready"
        /\ cells'[Subscriber].sched # NoTier
        /\ runner' \/ tasks' # <<>>
        /\ inv' = NoInv

\* The step that makes the subscriber ready again invokes its definition
\* once.
C26_OnePass ==
    (cells[Subscriber].rdy # "ready" /\ cells'[Subscriber].rdy = "ready") =>
        inv'[Subscriber] = 1

\* Since the last call the definition ran at most once, the length cell is
\* the number of elements, and at settle the subscriber holds the sum of
\* the elements.
C26_Settle ==
    /\ calls[Subscriber] <= 1
    /\ cells[Length].v = Len(rbs.t)
    /\ Len(Members(rbs.t)) = Len(rbs.t)
    /\ Settled => BundleCurrent

Kept(vs, src) == SelectSeq(vs, LAMBDA v : v \in Elems(src))

RECURSIVE Fresh(_, _)
Fresh(src, has) ==
    IF src = <<>> THEN <<>>
    ELSE IF Head(src) \in has THEN Fresh(Tail(src), has)
    ELSE <<Head(src)>> \o Fresh(Tail(src), has \cup {Head(src)})

\* update of an array target
C27_ArrayMode ==
    /\ Values(State)' = Kept(Values(State), last'.val)
                           \o Fresh(last'.val, Elems(Kept(Values(State), last'.val)))
    /\ Elems(Values(State)') = Elems(last'.val)
    /\ Len(rbs'.t) = Len(Values(State)')
    /\ cells'[Length].v = Len(rbs'.t)

\* update of an object target
C27_ObjectMode ==
    \A k \in 1..MaxKeys :
        IF last'.val[k] = Undefined THEN ~hasOwn(rbs'.t, k)
        ELSE hasOwn(rbs'.t, k) /\ cells'[rbs'.t[k]].v = last'.val[k]

C31_KeepsTier ==
    \A c \in Cell :
        (cells[c].sched # NoTier /\ cells'[c].sched # NoTier /\ inv'[c] = 0) =>
            cells'[c].sched <= cells[c].sched

\* A maybe-stale cell held in tier 2 that a ripple of distance 1 turns
\* stale, and that stays scheduled, is moved to tier 1 or 0.
C31_MovesDown ==
    \A c \in Cell :
        (/\ cells[c].sched = 2 /\ cells[c].rdy = "maybe"
         /\ cells'[c].rdy = "stale" /\ cells'[c].sched # NoTier) =>
            cells'[c].sched <= 1

(***************************************************************************)
(* C31: enqueue rule: a cell that is already scheduled keeps its tier when *)
(* enqueued again at a greater-or-equal distance and moves to the lower    *)
(* tier when enqueued again at a smaller distance, for enqueues that       *)
(* arrive through ripple and schedule as well as through queueEval itself; *)
(* the tier of an insertion is min(distance, 2).                           *)
(***************************************************************************)
C31_EnqueueRule == [][C31_KeepsTier /\ C31_MovesDown]_vars

(***************************************************************************)
(* C32: stale and maybe-stale are never conflated: a cell with a           *)
(* definition whose readiness is stale stays stale over every step that    *)
(* neither invokes its definition nor assigns the cell, so that it becomes *)
(* ready only by invocation or assignment and no ripple of distance >= 2   *)
(* turns it maybe-stale; only a maybe-stale cell returns to ready without  *)
(* its definition being invoked.                                           *)
(***************************************************************************)
C32_StaleStaysStale ==
    [][\A c \in Cell :
          (/\ HasDef(c) /\ cells'[c].def = cells[c].def
           /\ cells[c].rdy # "ready" /\ inv'[c] = 0) =>
              \/ cells'[c].rdy = cells[c].rdy
              \/ cells[c].rdy = "maybe"]_vars

\* The read of the maybe-stale cell 3 recomputed its provider, whose value
\* came out as before, and returned the cached value of cell 3 without
\* invoking its definition.
C32_Witness ==
    /\ last.op = "read" /\ last.cell = 3 /\ last.thrown = NoErr
    /\ cells[3].def = Fn(<<2>>, 1) /\ cells[3].rdy = "ready"
    /\ inv[2] = 1 /\ inv[3] = 0

\* The step left the outcome of every provider of c as it was, and invoked
\* the definition of none of them to a failure.
ProvidersUnchanged(c) ==
    \A p \in Elems(cells[c].pros) :
        /\ cells'[p].v = cells[p].v
        /\ cells'[p].error = cells[p].error
        /\ inv'[p] = 0 \/ cells'[p].error = NoErr

\* The outcome of the last read is what cell c had cached before it.
CachedOutcome(c) ==
    IF cells[c].error # NoErr
    THEN last'.thrown = cells[c].error
    ELSE last'.thrown = NoErr /\ last'.val = cells[c].v

(***************************************************************************)
(* C33: maybe-stale resolution is transparent: reading a maybe-stale cell  *)
(* none of whose providers observably changed (including providers that    *)
(* hold a cached error) upgrades it to ready and yields the cell's own     *)
(* cached outcome (its cached value, or its own cached error) without      *)
(* invoking its definition; in particular a cell whose definition caught a *)
(* provider's error and returned a fallback value still returns that       *)
(* fallback.                                                               *)
(***************************************************************************)
C33_MaybeTransparent ==
    [][\A c \in Cell :
          (/\ last'.op = "read" /\ last'.cell = c
           /\ cells[c].rdy = "maybe"
           /\ ProvidersUnchanged(c)) =>
              /\ cells'[c].rdy = "ready"
              /\ inv'[c] = 0
              /\ CachedOutcome(c)]_vars

(***************************************************************************)
(* C34: after a cell's definition evaluation completes, its provider set   *)
(* is exactly the set of cells that its own definition read (tracked)      *)
(* during that evaluation: no other cell, for example a provider of a      *)
(* maybe-stale cell that the definition read, is recorded as its provider, *)
(* and no cell it read is missing.                                         *)
(***************************************************************************)
C34_ProvidersAreReads ==
    [][\A c \in Cell :
          (Evaluated(c) /\ ~Failed(c)) =>
              Elems(cells'[c].pros) = Elems(cells'[c].def.reads)]_vars

(***************************************************************************)
(* C35: set(f) and setter(f) with a mapping function f store f(old), where *)
(* old is the value the cell held immediately before the call (for a cell  *)
(* with a definition, its last computed value), clear any definition, and  *)
(* setter returns the newly stored value; with a non-function argument     *)
(* they store the argument itself.                                         *)
(***************************************************************************)
C35_SetterStores ==
    [][\A c \in Cell : \A vvf \in SetArgs :
          Set(c, vvf) =>
              /\ cells'[c].v = IF vvf.fn THEN Mapping(cells[c].v) ELSE vvf.v
              /\ cells'[c].def = NoDef
              /\ last'.val = cells'[c].v]_vars

(***************************************************************************)
(* C36: the read-only view's error attribute equals the source cell's      *)
(* error at every moment: absent while the source has no cached error, and *)
(* the thrown exception after a failed evaluation of the source, until the *)
(* source's definition or value is reassigned.                             *)
(***************************************************************************)
C36_ViewErrorIsSourceError ==
    \A c \in Cell :
        cells[c].rov # 0 => viewError(State, c).val = cells[c].error

\* A successful evaluation of a cell leaves every cell that its definition
\* reads (tracked) among its providers.
C37_RecordsProviders ==
    \A c \in Cell :
        (Evaluated(c) /\ ~Failed(c)) =>
            Elems(cells'[c].def.reads) \subseteq Elems(cells'[c].pros)

\* A write that changes a source makes the ready cells that read it
\* non-ready.
C37_ChangeReaches ==
    \A c \in Cell : \A p \in Elems(cells[c].def.reads) :
        (/\ HasDef(c) /\ cells[c].rdy = "ready"
         /\ last'.op = "write" /\ last'.cell = p
         /\ cells'[p].v # cells[p].v) =>
            cells'[c].rdy # "ready"

(***************************************************************************)
(* C37: a cell that is recomputed because it was read inside an            *)
(* untracked(fn) scope still records the providers that its own definition *)
(* reads: after the untracked call returns, an observable change of one of *)
(* those providers makes the cell non-ready and its next read returns the  *)
(* up-to-date value.                                                       *)
(***************************************************************************)
C37_UntrackedRecompute == [][C37_RecordsProviders /\ C37_ChangeReaches]_vars

RECURSIVE ProvidersUpTo(_, _)
ProvidersUpTo(S, n) ==
    IF n = 0 THEN S
    ELSE ProvidersUpTo(S \cup UNION {Elems(cells[k].pros) : k \in S}, n - 1)

TransProviders(c) == ProvidersUpTo(Elems(cells[c].pros), Cardinality(Cell))

(***************************************************************************)
(* C38: the provider relation is acyclic at all times: no cell is ever its *)
(* own provider or consumer, directly or through other cells, also after a *)
(* read that was rejected as self-referential.                             *)
(***************************************************************************)
C38_Acyclic ==
    \A c \in Cell : c \notin TransProviders(c) /\ c \notin TransConsumers(c)

(***************************************************************************)
(* C39: monotone staleness: whenever no operation is in progress, every    *)
(* consumer of a non-ready (stale or maybe-stale) cell is itself           *)
(* non-ready, after any sequence of writes, reads, definition assignments, *)
(* unready() calls and failed evaluations; this is the condition under     *)
(* which ripple may skip propagation through a cell that was already       *)
(* non-ready.                                                              *)
(***************************************************************************)
C39_MonotoneStaleness ==
    \A c \in Cell :
        cells[c].rdy # "ready" =>
            \A k \in Consumers(c) : cells[k].rdy # "ready"

\* A successful evaluation of a cell that held an error leaves no consumer
\* ready with that error cached.
C40_RecoveryInvalidates ==
    \A p \in Cell :
        (Evaluated(p) /\ cells[p].error # NoErr /\ cells'[p].error = NoErr) =>
            \A k \in Consumers(p) :
                ~(cells'[k].rdy = "ready" /\ cells'[k].error = cells[p].error)

\* A read that rethrows a cached error of a cell whose definition does not
\* throw finds the error in one of the cell's providers.
C40_ErrorHasSource ==
    \A c \in Cell :
        (/\ last'.op = "read" /\ last'.cell = c /\ last'.thrown # NoErr
         /\ inv'[c] = 0 /\ cells[c].def.throws = NoErr) =>
            \E p \in Elems(cells'[c].pros) : cells'[p].error = last'.thrown

(***************************************************************************)
(* C40: when a cell's evaluation failed and a later evaluation of the same *)
(* cell succeeds, every consumer that cached the failure is made           *)
(* non-ready, so that no consumer keeps throwing the provider's old error  *)
(* while the provider itself reads successfully, also when the successful  *)
(* result equals the value the provider held before the failure.           *)
(***************************************************************************)
C40_RecoveryReachesConsumers ==
    [][C40_RecoveryInvalidates /\ C40_ErrorHasSource]_vars

=============================================================================
